---- MODULE Spec2Model ----
(***************************************************************************)
(* VoiceGuardian: the transcription orchestration of the Waveform          *)
(* component (handleSmartTranscribe, handleServerTranscribe,               *)
(* handleBrowserTranscribe, handleTranscribe, handleWebSpeechTranscribe,   *)
(* handleModerate), lib/transcribe.ts (transcribeAudio and the live        *)
(* microphone session of transcribeWithWebSpeech), lib/moderate.ts (the     *)
(* classifier loop and the keyword matcher), App's processFile with its    *)
(* flag projection, the marker effect of Waveform and the operations of    *)
(* store/useAudioStore.ts.                                                 *)
(*                                                                         *)
(* JavaScript runs every handler to its next await without interruption,   *)
(* so one action is one such segment: a click up to the first await, or a  *)
(* backend/recognizer event together with the continuation it resumes.     *)
(* window.confirm blocks the thread; its answer is an input of the segment *)
(* that asks.  Text is a sequence of one-character strings.                *)
(***************************************************************************)
EXTENDS Integers, Sequences, FiniteSets, TLC

\* ------------------------------------------------------------------ bounds
\* handler invocations (clicks) in one behaviour
MaxRuns == 2
\* times the Waveform component is mounted in one behaviour
MaxMounts == 2
\* recognition results delivered to one live-microphone session
MaxResults == 2
\* processFile invocations in one behaviour
MaxProcs == 2
\* calls of moderateTranscript and projections on one fixture
MaxCalls == 2

\* the length of the longest audio, in seconds
MaxSeconds == 10

\* ------------------------------------------------------- program constants
\* the auto-stop delay of transcribeWithWebSpeech, in milliseconds
AutoStopMs == 30000
\* the length below which App treats a transcript as "no speech"
MinTranscriptLen == 3
\* the characters of context kept on each side of a flagged word
ContextRadius == 30
\* the characters kept after a flagged word in the wider snippet
SnippetAfter == 60
\* the length of the transcript's head that replaces an empty snippet
SnippetDefaultLen == 100
\* the confidence of a span that carries no score, in hundredths
DefaultScore == 80
\* the score of a keyword match in the word-array form, in hundredths
KeywordScore == 80
\* granularity of the model's clock, in milliseconds
TickMs == AutoStopMs \div 3

\* ------------------------------------------------------------------- text
IsSpace(c) == c = " "

RECURSIVE TrimStart(_)
TrimStart(s) ==
  IF s # <<>> /\ IsSpace(Head(s)) THEN TrimStart(Tail(s)) ELSE s

RECURSIVE TrimEnd(_)
TrimEnd(s) ==
  IF s # <<>> /\ IsSpace(s[Len(s)]) THEN TrimEnd(SubSeq(s, 1, Len(s) - 1)) ELSE s

\* String.prototype.trim
Trim(s) == TrimEnd(TrimStart(s))

\* transcript.split(/\s+/): a leading or trailing run of whitespace yields an
\* empty first or last token, and the empty string yields one empty token
RECURSIVE SplitAcc(_, _, _, _)
SplitAcc(s, cur, acc, inWs) ==
  IF s = <<>> THEN Append(acc, cur)
  ELSE IF IsSpace(Head(s))
       THEN IF inWs THEN SplitAcc(Tail(s), cur, acc, TRUE)
            ELSE SplitAcc(Tail(s), <<>>, Append(acc, cur), TRUE)
       ELSE SplitAcc(Tail(s), Append(cur, Head(s)), acc, FALSE)

SplitWs(s) == SplitAcc(s, <<>>, <<>>, FALSE)

\* texts a backend may return: "", "he", "h e", "hell"
TextSamples ==
  { <<>>,
    <<"h", "e">>,
    <<"h", " ", "e">>,
    <<"h", "e", "l", "l">> }

\* results the local model may return: a text with or without word timings
BrowserResultSamples ==
  { [text |-> <<>>, words |-> <<>>],
    [text |-> <<"h", "e">>, words |-> <<>>],
    [text |-> <<"h", "e", "l", "l">>, words |-> <<>>],
    [text |-> <<"h", "e", "l", "l">>,
     words |-> << [word |-> <<"h", "e", "l", "l">>, start |-> 2, end |-> 3] >>] }

\* phrases the recognizer may deliver: " " and "he"
PhraseSamples == { <<" ">>, <<"h", "e">> }

\* results one recognition event may carry: one or two of the phrases " ",
\* "he" and "l", each final or interim
ResultSamples == [ phrase : PhraseSamples \cup { <<"l">> }, isFinal : BOOLEAN ]

BatchSamples ==
  { << a >> : a \in ResultSamples } \cup
  { << a, b >> : a \in ResultSamples, b \in ResultSamples }

\* messages of the errors transcribeAudioBrowser rejects with: one of its own
\* and two raw ones it rethrows
BrowserErrors ==
  { "Failed to load AI transcription model. Please check your internet connection and try again.",
    "Failed to fetch",
    "Transcription API error: 503" }

\* error.message.includes('fetch')
IncludesFetch(m) == m = "Failed to fetch"

\* error.message.includes('API error')
IncludesApiError(m) == m = "Transcription API error: 503"

\* event.error of SpeechRecognition's error event
SpeechErrorCodes == { "not-allowed", "aborted" }

Tabs == { "dashboard", "files", "settings" }

\* ------------------------------------------------------------------ state
VARIABLES
  settings,     \* the two backend preference flags of the store
  activeTab,    \* App's activeTab; AudioFiles (and Waveform) render on "files"
  gen,          \* how many times Waveform has been mounted
  waveform,     \* the mounted Waveform instance: its useState fields, its
                \* player (wavesurferRef) and the overlay drawn in its container
  runs,         \* the handler invocations, in click order
  recs,         \* the SpeechRecognition sessions, in creation order
  speechSupported,    \* window.SpeechRecognition || webkitSpeechRecognition
  moderationPipeline, \* whether the lazily loaded classifier of moderate.ts is loaded
  app,          \* the useState fields of App that processFile writes
  procs,        \* the invocations of App's processFile, in effect order
  fixture,      \* a transcript, its word timings and the classifier's scores for it
  calls,        \* the calls of moderateTranscript on the fixture, in call order
  store         \* audioFiles and the two selection fields of useAudioStore

\* the state of App's analysis and of the calls on the fixture
appVars == << app, procs, fixture, calls, store >>

vars == << settings, activeTab, gen, waveform, runs, recs, speechSupported, moderationPipeline,
           app, procs, fixture, calls, store >>

NoTranscription == [set |-> FALSE, text |-> <<>>, words |-> <<>>]

Transcription(text, words) == [set |-> TRUE, text |-> text, words |-> words]

\* the initial useState values of App (App.tsx:18-25); waveformOf, flagsOf and
\* errorOf name the file whose analysis wrote the field, 0 when none did
InitialApp ==
  [ waveformData |-> 0,
    flaggedTimestamps |-> <<>>,
    processingError |-> "null",
    isProcessing |-> FALSE,
    processingStep |-> "",
    flagsOf |-> 0,
    errorOf |-> 0 ]

\* an uploaded file as UploadAudio builds it: no url, flaggedWords undefined
\* (<<>>; a defined value v is << v >>)
UploadedFile(id) == [id |-> id, url |-> FALSE, flaggedWords |-> <<>>]

\* audioFiles.find(f => f.id === id): << the first such file >>, <<>> if none
Find(audioFiles, id) ==
  LET found == SelectSeq(audioFiles, LAMBDA f : f.id = id)
  IN  IF found = <<>> THEN <<>> ELSE << Head(found) >>

\* the store as created (useAudioStore.ts:57-61): selectedFile is <<>> for
\* null and << file >> for a file, selectedFileId 0 for null; shared is
\* whether selectedFile is the very object audioFiles holds under its id;
\* byId and last are history: whether the selection was made by
\* setSelectedFileId, and the last operation with the selection it found
InitialStore ==
  [ audioFiles |-> <<>>,
    selectedFile |-> <<>>,
    selectedFileId |-> 0,
    shared |-> FALSE,
    byId |-> FALSE,
    last |-> [op |-> "create", id |-> 0, selectedFile |-> <<>>, selectedFileId |-> 0] ]

\* the last operation and the selection it found in the store st
LastOp(st, op, id) ==
  [op |-> op, id |-> id, selectedFile |-> st.selectedFile,
   selectedFileId |-> st.selectedFileId]

\* the store st after addAudioFile(file): the file gets its object URL, is
\* put first and is selected
Added(st, file) ==
  LET fileWithUrl == [file EXCEPT !.url = TRUE]
  IN  [ audioFiles |-> << fileWithUrl >> \o st.audioFiles,
        selectedFile |-> << fileWithUrl >>,
        selectedFileId |-> fileWithUrl.id,
        shared |-> TRUE,
        byId |-> FALSE,
        last |-> LastOp(st, "addAudioFile", file.id) ]

\* the id of the store's selectedFile as App reads it, 0 for null
selectedFile ==
  IF store.selectedFile = <<>> THEN 0 ELSE store.selectedFile[1].id

\* a processFile invocation for file f, up to its first await; stages and
\* results are its history: the stages started and how each ended
NewProc(f) ==
  [ file |-> f, pc |-> "waveform", stage |-> "none",
    stages |-> << "waveform" >>, results |-> <<>>,
    transcription |-> NoTranscription, flaggedWords |-> <<>>,
    outcome |-> "pending" ]

\* the effect on [selectedFile] when no file is selected (App.tsx:49-54)
EffectCleared(a) ==
  [a EXCEPT !.waveformData = 0, !.flaggedTimestamps = <<>>,
            !.processingError = "null", !.flagsOf = 0, !.errorOf = 0]

\* processFile up to its first await (App.tsx:57-64)
ProcessFileStart(a) ==
  [a EXCEPT !.isProcessing = TRUE, !.processingError = "null", !.errorOf = 0,
            !.processingStep = "Generating waveform..."]

NoFixture == [transcript |-> <<>>, wordTimestamps |-> <<>>, scores |-> <<>>]

\* no file selected, no analysis started, no call made
AppIdle ==
  /\ app = InitialApp
  /\ procs = <<>>
  /\ fixture = NoFixture
  /\ calls = <<>>
  /\ store = InitialStore

\* file 1 has been uploaded: the store has selected it and App's effect has
\* started its analysis, which is awaiting the waveform
FileUploaded ==
  /\ store = Added(InitialStore, UploadedFile(1))
  /\ app = ProcessFileStart(InitialApp)
  /\ procs = << NewProc(1) >>
  /\ fixture = NoFixture
  /\ calls = <<>>

\* Waveform as mounted: the initial useState values; the first effect has
\* called initWaveSurfer, which awaits the import of wavesurfer.js
\* (imports: the calls awaiting it), so wavesurferRef.current is null, and
\* the marker effect has returned at its first line.  canvas is whether a
\* <canvas> of the player is found under the container; markers and regions
\* are the .word-marker and .flagged-region elements in the container; fresh
\* is whether the running segment has set transcription or flaggedWords to a
\* new object.  revision is the Waveform source that is built: "current"
\* for part_005; "earlier" for part_004, which has the buttons AI Transcribe
\* and Browser Transcribe and no transcriptionMode, transcriptionError or
\* transcriptionStatus; "serverOnly" for components/Waveform.tsx, which has
\* the buttons AI Transcribe (handleServerTranscribe) and Live Speech, no
\* transcriptionMode and no marker effect.  A field a revision does not
\* have keeps its initial value
InitialWaveform ==
  [ revision |-> "current",
    duration |-> 0,
    wavesurfer |-> "null",
    imports |-> 1,
    canvas |-> FALSE,
    markers |-> <<>>,
    regions |-> <<>>,
    fresh |-> FALSE,
    isTranscribing |-> FALSE,
    transcription |-> NoTranscription,
    isModerating |-> FALSE,
    flaggedWords |-> <<>>,
    isUsingWebSpeech |-> FALSE,
    isListeningForSpeech |-> FALSE,
    isUsingKeywordModeration |-> FALSE,
    transcriptionMode |-> "server",
    transcriptionError |-> "null",
    transcriptionStatus |-> "" ]

\* Waveform of the earlier revision as mounted (part_004:18-29)
EarlierWaveform == [InitialWaveform EXCEPT !.revision = "earlier"]

\* Waveform of components/Waveform.tsx as mounted (Waveform.tsx:18-31)
ServerOnlyWaveform == [InitialWaveform EXCEPT !.revision = "serverOnly"]

\* the condition under which the marker effect draws timings: the current
\* revision asks for transcriptionMode === 'browser' (part_005:115,128), the
\* earlier one for !isUsingWebSpeech (part_004:110,123);
\* components/Waveform.tsx has no such effect and draws nothing
DrawsTimings(w) ==
  CASE w.revision = "earlier" -> ~ w.isUsingWebSpeech
    [] w.revision = "serverOnly" -> FALSE
    [] OTHER -> w.transcriptionMode = "browser"

\* the flagged regions the marker effect appends once it has reached its
\* second block (part_005:127-149): one per flagged word that starts within
\* the duration
DrawnRegions(w, duration) ==
  IF Len(w.flaggedWords) > 0 /\ DrawsTimings(w)
  THEN SelectSeq(w.flaggedWords, LAMBDA flagged : flagged.start >= 0 /\ flagged.start <= duration)
  ELSE <<>>

\* the word markers it appends in its first block (part_005:114-125)
DrawnMarkers(w, duration) ==
  IF w.transcription.set /\ Len(w.transcription.words) > 0 /\ DrawsTimings(w)
  THEN SelectSeq(w.transcription.words, LAMBDA word : word.start >= 0 /\ word.start <= duration)
  ELSE <<>>

\* one run of the marker effect (part_005:101-153) on the instance w: it
\* returns at once while there is no player; otherwise it removes the
\* elements it drew before, returns if no <canvas> is found under the
\* container, and draws the markers and regions of the state;
\* components/Waveform.tsx has no marker effect
MarkerEffect(w) ==
  IF w.revision = "serverOnly" THEN w
  ELSE IF w.wavesurfer = "null" THEN w
  ELSE IF ~ w.canvas THEN [w EXCEPT !.markers = <<>>, !.regions = <<>>]
  ELSE [w EXCEPT !.markers = DrawnMarkers(w, w.duration),
                 !.regions = DrawnRegions(w, w.duration)]

\* the render that follows a segment which turned the instance `old` into
\* w: the marker effect runs when one of its dependencies [transcription,
\* flaggedWords, duration, transcriptionMode] (isUsingWebSpeech for
\* transcriptionMode in the earlier revision) is another value than at the
\* last render; a transcription or flag list that was set is a new object
Rendered(old, w) ==
  LET w1 == [w EXCEPT !.fresh = FALSE]
  IN  IF \/ w.fresh
         \/ w.duration # old.duration
         \/ CASE w.revision = "earlier" -> w.isUsingWebSpeech # old.isUsingWebSpeech
              [] w.revision = "serverOnly" -> FALSE
              [] OTHER -> w.transcriptionMode # old.transcriptionMode
      THEN MarkerEffect(w1)
      ELSE w1

\* the first effect when the audio prop names another file
\* (part_005:36-98, dependencies [audio.blob, audio.id]): its cleanup destroys
\* the player, which takes the player's elements and the overlay drawn among
\* them out of the container, and initWaveSurfer is called again; the state
\* is kept and the marker effect does not run
AudioChanged(w) ==
  [w EXCEPT !.wavesurfer = "null", !.canvas = FALSE,
            !.markers = <<>>, !.regions = <<>>,
            !.imports = @ + 1]

\* whether AudioFiles renders Waveform when App shows `tab` and the store is
\* st: on the files tab, with a list that is not empty and a selectedFileId
\* that getFile finds in it
MountedIn(tab, st) ==
  /\ tab = "files"
  /\ st.audioFiles # <<>>
  /\ st.selectedFileId # 0
  /\ Find(st.audioFiles, st.selectedFileId) # <<>>

mounted == MountedIn(activeTab, store)

\* React mounts a fresh Waveform when AudioFiles starts to render it and
\* drops the instance with its state when it stops; an instance that stays
\* mounted while another file becomes the selected one gets a new audio prop
Remount(tab, st) ==
  LET mounts == MountedIn(tab, st) /\ ~ mounted
  IN  /\ mounts => gen < MaxMounts
      /\ gen' = IF mounts THEN gen + 1 ELSE gen
      /\ waveform' = IF MountedIn(tab, st) # mounted
                     THEN [InitialWaveform EXCEPT !.revision = waveform.revision]
                     ELSE IF mounted /\ st.selectedFileId # store.selectedFileId
                     THEN AudioChanged(waveform)
                     ELSE waveform

\* the dashboard after a file has been uploaded; the settings are the
\* persisted ones
InitTabs ==
  /\ settings \in [ preferServerTranscription : BOOLEAN,
                    preferBrowserTranscription : BOOLEAN ]
  /\ activeTab = "dashboard"
  /\ gen = 0
  /\ waveform = InitialWaveform
  /\ runs = <<>>
  /\ recs = <<>>
  /\ speechSupported \in BOOLEAN
  /\ moderationPipeline = FALSE
  /\ FileUploaded

\* the store's defaultSettings
defaultSettings ==
  [ preferServerTranscription |-> TRUE, preferBrowserTranscription |-> FALSE ]

\* a first session: the dashboard, the default settings, no file selected
InitApp ==
  /\ settings = defaultSettings
  /\ activeTab = "dashboard"
  /\ gen = 0
  /\ waveform = InitialWaveform
  /\ runs = <<>>
  /\ recs = <<>>
  /\ speechSupported = TRUE
  /\ moderationPipeline = FALSE
  /\ AppIdle

\* the Audio Files tab after a file has been uploaded: Waveform has just been
\* mounted for it
Init ==
  /\ settings \in [ preferServerTranscription : BOOLEAN,
                    preferBrowserTranscription : BOOLEAN ]
  /\ activeTab = "files"
  /\ gen = 1
  /\ waveform = InitialWaveform
  /\ runs = <<>>
  /\ recs = <<>>
  /\ speechSupported \in BOOLEAN
  /\ moderationPipeline = FALSE
  /\ FileUploaded

\* the same with the earlier revision of Waveform built in, which does not
\* read the settings
InitEarlier ==
  /\ settings = defaultSettings
  /\ activeTab = "files"
  /\ gen = 1
  /\ waveform = EarlierWaveform
  /\ runs = <<>>
  /\ recs = <<>>
  /\ speechSupported \in BOOLEAN
  /\ moderationPipeline = FALSE
  /\ FileUploaded

\* the same with components/Waveform.tsx built in
InitServerOnly ==
  /\ settings = defaultSettings
  /\ activeTab = "files"
  /\ gen = 1
  /\ waveform = ServerOnlyWaveform
  /\ runs = <<>>
  /\ recs = <<>>
  /\ speechSupported \in BOOLEAN
  /\ moderationPipeline = FALSE
  /\ FileUploaded

\* any of the three revisions of Waveform
InitRevisions == Init \/ InitEarlier \/ InitServerOnly

\* ---------------------------------------------------- Waveform: the player
\* durations the player reports for an audio, in seconds
DurationSamples == { 1, MaxSeconds }

\* the import of wavesurfer.js resolves in a call of initWaveSurfer
\* (part_005:42-82): a player that exists is destroyed, a new one is created
\* in the container and starts to load the blob; hasCanvas is whether its
\* renderer puts its <canvas> where the container's querySelector finds it
wsCreated(hasCanvas) ==
  /\ mounted
  /\ waveform.imports > 0
  /\ waveform' = [waveform EXCEPT !.imports = @ - 1,
                                  !.wavesurfer = "loading",
                                  !.canvas = hasCanvas,
                                  !.markers = <<>>,
                                  !.regions = <<>>]
  /\ UNCHANGED << settings, activeTab, gen, runs, recs, speechSupported, moderationPipeline >>
  /\ UNCHANGED appVars

\* the import rejects: the catch block logs the error (part_005:84-86)
wsImportFails ==
  /\ mounted
  /\ waveform.imports > 0
  /\ waveform' = [waveform EXCEPT !.imports = @ - 1]
  /\ UNCHANGED << settings, activeTab, gen, runs, recs, speechSupported, moderationPipeline >>
  /\ UNCHANGED appVars

\* the player's ready event (part_005:61-63): setDuration(ws.getDuration())
wsReady(seconds) ==
  /\ mounted
  /\ waveform.wavesurfer = "loading"
  /\ waveform' = Rendered(waveform, [waveform EXCEPT !.wavesurfer = "ready",
                                                     !.duration = seconds])
  /\ UNCHANGED << settings, activeTab, gen, runs, recs, speechSupported, moderationPipeline >>
  /\ UNCHANGED appVars

Player ==
  \/ \E hasCanvas \in BOOLEAN : wsCreated(hasCanvas)
  \/ wsImportFails
  \/ \E seconds \in DurationSamples : wsReady(seconds)

\* ------------------------------------------------------- tabs and settings
\* Sidebar's onTabChange: AudioFiles, and Waveform with it, is rendered on
\* the files tab only
setActiveTab(t) ==
  /\ t # activeTab
  /\ activeTab' = t
  /\ Remount(t, store)
  /\ UNCHANGED << settings, runs, recs, speechSupported, moderationPipeline >>
  /\ UNCHANGED appVars

\* the store's updateSettings(newSettings): { ...state.settings, ...newSettings }
updateSettings(newSettings) ==
  /\ settings' = [k \in DOMAIN settings |->
                    IF k \in DOMAIN newSettings THEN newSettings[k] ELSE settings[k]]
  /\ UNCHANGED << activeTab, gen, waveform, runs, recs, speechSupported, moderationPipeline >>
  /\ UNCHANGED appVars

\* the store's resetSettings()
resetSettings ==
  /\ settings' = defaultSettings
  /\ UNCHANGED << activeTab, gen, waveform, runs, recs, speechSupported, moderationPipeline >>
  /\ UNCHANGED appVars

\* the two switches of the Settings tab
handleServerTranscriptionToggle ==
  /\ activeTab = "settings"
  /\ updateSettings([preferServerTranscription |-> ~ settings.preferServerTranscription])

handleBrowserTranscriptionToggle ==
  /\ activeTab = "settings"
  /\ updateSettings([preferBrowserTranscription |-> ~ settings.preferBrowserTranscription])

\* --------------------------------------------------------- lib/transcribe.ts
\* transcribeAudio(blob, useServer): the backend it awaits first
transcribeAudioFirst(useServer) == IF useServer THEN "server" ELSE "browser"

\* transcribeAudio with the local model's result rebuilt as the remote one is:
\* the word timings are dropped
transcribeAudio_dropsWords(stage, ev) ==
  IF stage = "server"
  THEN IF ev.ok
       THEN [state |-> "resolved", next |-> "none",
             value |-> Transcription(ev.result.text, <<>>), error |-> ""]
       ELSE [state |-> "pending", next |-> "browser",
             value |-> NoTranscription, error |-> ""]
  ELSE IF ev.ok
       THEN [state |-> "resolved", next |-> "none",
             value |-> Transcription(ev.result.text, <<>>), error |-> ""]
       ELSE [state |-> "rejected", next |-> "none",
             value |-> NoTranscription, error |-> ev.error]

\* transcribeAudio while awaiting backend `stage`, on that backend's outcome
\* ev = [ok, result, error]: a server text becomes { text, words: [] }, a
\* server error is caught and the browser backend is awaited next, and the
\* browser backend's outcome is the call's outcome
transcribeAudio(stage, ev) ==
  IF stage = "server"
  THEN IF ev.ok
       THEN [state |-> "resolved", next |-> "none",
             value |-> Transcription(ev.result.text, <<>>), error |-> ""]
       ELSE [state |-> "pending", next |-> "browser",
             value |-> NoTranscription, error |-> ""]
  ELSE IF ev.ok
       THEN [state |-> "resolved", next |-> "none",
             value |-> ev.result, error |-> ""]
       ELSE [state |-> "rejected", next |-> "none",
             value |-> NoTranscription, error |-> ev.error]

\* the message transcribeWithWebSpeech rejects with on an error event
SpeechErrorMessage(code) ==
  "Speech recognition failed. " \o
  ( CASE code = "no-speech" -> "No speech was detected. Please try speaking clearly."
      [] code = "audio-capture" -> "No microphone was found. Please check your microphone permissions."
      [] code = "not-allowed" -> "Microphone permission was denied. Please allow microphone access and try again."
      [] code = "network" -> "Network error occurred. Please check your internet connection."
      [] OTHER -> "Please try again." )

\* recognition.onend: resolve with the trimmed final transcript when it is
\* not empty, reject otherwise
OnEndOutcome(finalTranscript) ==
  IF Trim(finalTranscript) # <<>>
  THEN [ok |-> TRUE, text |-> Trim(finalTranscript), error |-> ""]
  ELSE [ok |-> FALSE, text |-> <<>>,
        error |-> "No speech was detected. Please try speaking clearly and ensure your microphone is working."]

\* the accumulation with interim results taken as well
OnResultTranscript_interimToo(finalTranscript, phrase, isFinal) ==
  finalTranscript \o phrase \o <<" ">>

\* recognition.onresult for one result: only a final one is accumulated
OnResultTranscript(finalTranscript, phrase, isFinal) ==
  IF isFinal THEN finalTranscript \o phrase \o <<" ">> ELSE finalTranscript

\* the loop of recognition.onresult over the new results of one event, each
\* [phrase, isFinal], from event.resultIndex on
RECURSIVE OnResultLoop(_, _)
OnResultLoop(finalTranscript, batch) ==
  IF batch = <<>> THEN finalTranscript
  ELSE OnResultLoop(
         OnResultTranscript(finalTranscript, Head(batch).phrase, Head(batch).isFinal),
         Tail(batch))

\* the final results of a batch, in order
RECURSIVE FinalPhrases(_)
FinalPhrases(batch) ==
  IF batch = <<>> THEN <<>>
  ELSE ( IF Head(batch).isFinal THEN << Head(batch).phrase >> ELSE <<>> )
       \o FinalPhrases(Tail(batch))

\* the setTimeout callback: stop the recognizer only while it is listening
AutoStopCalls(isListening) == isListening

\* a recognizer created by transcribeWithWebSpeech for handler run r
NewRecognizer(r) ==
  [ run |-> r, isListening |-> FALSE, everStarted |-> FALSE, ended |-> FALSE,
    finalTranscript |-> <<>>, results |-> 0, finals |-> <<>>, interims |-> 0,
    promise |-> "pending", text |-> <<>>, error |-> "",
    timerPending |-> TRUE, elapsed |-> 0, startedAt |-> 0,
    stopCalled |-> FALSE, stoppedAt |-> 0, errored |-> FALSE ]

\* the record of a session that has ended is kept until the next click; the
\* timer of an ended session finds isListening false and does nothing
EndedRecognizer ==
  [ NewRecognizer(0) EXCEPT !.ended = TRUE, !.everStarted = TRUE,
      !.promise = "settled", !.timerPending = FALSE ]

Ended(rc) ==
  [ i \in 1..Len(rc) |->
      IF rc[i].ended THEN EndedRecognizer ELSE rc[i] ]

\* a session is active from recognition.start() to its end event
ActiveRecognizers == { i \in 1..Len(recs) : ~ recs[i].ended }

\* ------------------------------------------------------ Waveform: handlers
\* the resolution with the browser preference winning when both are set
SmartUseServer_browserWins(s) ==
  IF s.preferBrowserTranscription THEN FALSE ELSE TRUE

\* handleSmartTranscribe's resolution of the two preference flags to the
\* useServer argument of transcribeAudio
SmartUseServer(s) ==
  LET both == s.preferServerTranscription /\ s.preferBrowserTranscription
      useServer1 == IF both THEN TRUE ELSE s.preferServerTranscription
      useBrowser1 == IF both THEN FALSE ELSE s.preferBrowserTranscription
  IN  IF ~ useServer1 /\ ~ useBrowser1 THEN TRUE ELSE useServer1

\* a handler invocation; capListening is the isListeningForSpeech of the
\* render whose closures the click runs
NewRun(kind, mode, stage, statuses) ==
  [ kind |-> kind, gen |-> gen, pc |-> "call", mode |-> mode, retry |-> FALSE,
    stage |-> stage,
    attempts |-> IF stage = "none" THEN <<>> ELSE << stage >>,
    returns |-> <<>>, statuses |-> statuses, asked |-> <<>>, rec |-> 0,
    capListening |-> waveform.isListeningForSpeech,
    stored |-> NoTranscription, arg |-> NoTranscription,
    outcome |-> "pending" ]

\* setState of an unmounted instance has no effect
LiveRun(run) == mounted /\ run.gen = gen

\* the transcription buttons: disabled={isTranscribing || isListeningForSpeech}
ButtonsEnabled == mounted /\ ~ (waveform.isTranscribing \/ waveform.isListeningForSpeech)

\* the finally block of a transcription handler; handleTranscribe of the
\* earlier Waveform revision has no status line
FinallyTranscribe(kind, w) ==
  IF kind = "legacy" THEN [w EXCEPT !.isTranscribing = FALSE]
  ELSE [w EXCEPT !.isTranscribing = FALSE, !.transcriptionStatus = ""]

FinallyStatuses(kind) == IF kind = "legacy" THEN <<>> ELSE << "" >>

\* the end of handleWebSpeechTranscribe once transcribeWithWebSpeech has
\* settled, followed by the finally block of the handler that awaited it
SpeechSettled(w, run, ok, text, error) ==
  LET w1 == IF ok
            THEN [w EXCEPT !.transcription = Transcription(text, <<>>),
                           !.flaggedWords = <<>>,
                           !.fresh = TRUE,
                           !.isUsingKeywordModeration = FALSE]
            ELSE IF w.revision = "earlier" THEN w
            ELSE [w EXCEPT !.transcriptionError =
                             "Live speech recognition failed: " \o error]
      w2 == [w1 EXCEPT !.isListeningForSpeech = FALSE]
  IN  [ w |-> IF run.kind = "speech" THEN w2 ELSE FinallyTranscribe(run.kind, w2),
        run |-> [run EXCEPT !.pc = "done",
                   !.stored = IF ok THEN Transcription(text, <<>>) ELSE @,
                   !.outcome = IF ok THEN "succeeded" ELSE "failed",
                   !.statuses = IF run.kind = "speech" THEN @
                                ELSE @ \o FinallyStatuses(run.kind)],
        start |-> FALSE ]

\* handleWebSpeechTranscribe up to its await: the busy-flag guard, the state
\* it sets, and transcribeWithWebSpeech up to recognition.start()
handleWebSpeechTranscribeStart(w, run, startOk) ==
  IF run.capListening
  THEN [ w |-> IF run.kind = "speech" THEN w ELSE FinallyTranscribe(run.kind, w),
         run |-> [run EXCEPT !.pc = "done", !.outcome = "rejected",
                    !.statuses = IF run.kind = "speech" THEN @
                                 ELSE @ \o FinallyStatuses(run.kind)],
         start |-> FALSE ]
  ELSE LET w1 == IF w.revision = "earlier"
                 THEN [w EXCEPT !.isListeningForSpeech = TRUE,
                                !.isUsingWebSpeech = TRUE]
                 ELSE IF w.revision = "serverOnly"
                 THEN [w EXCEPT !.isListeningForSpeech = TRUE,
                                !.isUsingWebSpeech = TRUE,
                                !.transcriptionError = "null"]
                 ELSE [w EXCEPT !.isListeningForSpeech = TRUE,
                                !.isUsingWebSpeech = TRUE,
                                !.transcriptionMode = "browser",
                                !.transcriptionError = "null"]
           run1 == [run EXCEPT !.attempts = Append(@, "speech")]
       IN  IF ~ speechSupported
           THEN SpeechSettled(w1, run1, FALSE, <<>>,
                  "Web Speech API is not supported in this browser. Please use Chrome, Edge, or Safari.")
           ELSE IF ~ startOk
           THEN SpeechSettled(w1, run1, FALSE, <<>>,
                  "Failed to start speech recognition. Please try again.")
           ELSE [ w |-> w1, run |-> [run1 EXCEPT !.pc = "speech"], start |-> TRUE ]

\* the offer with the answer ignored: the session starts unasked
OfferWebSpeech_unasked(w, run, answer, startOk) ==
  handleWebSpeechTranscribeStart(w, run, startOk)

\* the confirm() that offers live speech recognition, and what follows it
OfferWebSpeech(w, run, answer, startOk) ==
  LET run1 == [run EXCEPT !.asked = Append(@, [q |-> "speech", a |-> answer])]
  IN  IF answer
      THEN handleWebSpeechTranscribeStart(w, run1, startOk)
      ELSE [ w |-> FinallyTranscribe(run.kind, w),
             run |-> [run1 EXCEPT !.pc = "done", !.outcome = "failed",
                        !.statuses = @ \o FinallyStatuses(run.kind)],
             start |-> FALSE ]

\* the try block of a transcription handler after transcribeAudio resolved
TranscribeResolved(w, run, result) ==
  LET w1 == [w EXCEPT !.transcription = result,
                      !.flaggedWords = <<>>,
                      !.fresh = TRUE,
                      !.isUsingKeywordModeration = FALSE]
      w2 == IF run.kind = "legacy" THEN w1
            ELSE [w1 EXCEPT !.transcriptionStatus = ""]
  IN  [ w |-> FinallyTranscribe(run.kind, w2),
        run |-> [run EXCEPT !.pc = "done", !.stored = result,
                   !.outcome = "succeeded",
                   !.statuses = @ \o FinallyStatuses(run.kind)
                                  \o FinallyStatuses(run.kind)],
        start |-> FALSE ]

\* the message handleSmartTranscribe and handleServerTranscribe show for a
\* failure in server mode
ServerModeMessage(error, other) ==
  IF IncludesFetch(error)
  THEN "Could not reach transcription server. Please check your internet connection and try again later."
  ELSE IF IncludesApiError(error)
  THEN "Transcription server is temporarily unavailable. Please try again later."
  ELSE other

\* the catch block of a transcription handler after transcribeAudio rejected
TranscribeRejected(w, run, error, answer, startOk) ==
  CASE run.kind = "server" ->
         [ w |-> FinallyTranscribe(run.kind,
                   [w EXCEPT !.transcriptionError = ServerModeMessage(error,
                      IF w.revision = "serverOnly"
                      THEN "Server transcription failed. Please check your internet connection and try again."
                      ELSE "Server transcription failed. Please try browser transcription or live speech recognition.")]),
           run |-> [run EXCEPT !.pc = "done", !.outcome = "failed",
                      !.statuses = @ \o FinallyStatuses(run.kind)],
           start |-> FALSE ]
    [] run.kind = "browser" ->
         LET w1 == [w EXCEPT !.transcriptionError =
                      "Browser AI transcription failed. Please try server transcription or live speech recognition."]
         IN  IF speechSupported
             THEN OfferWebSpeech(w1, run, answer, startOk)
             ELSE [ w |-> FinallyTranscribe(run.kind, w1),
                    run |-> [run EXCEPT !.pc = "done", !.outcome = "failed",
                               !.statuses = @ \o FinallyStatuses(run.kind)],
                    start |-> FALSE ]
    [] run.kind = "legacy" ->
         IF speechSupported
         THEN OfferWebSpeech(w, run, answer, startOk)
         ELSE [ w |-> FinallyTranscribe(run.kind, w),
                run |-> [run EXCEPT !.pc = "done", !.outcome = "failed"],
                start |-> FALSE ]
    [] run.kind = "smart" /\ ~ run.retry /\ run.mode = "server" ->
         LET w1 == [w EXCEPT !.transcriptionError = ServerModeMessage(error,
                      "Server transcription failed. The system will automatically try browser transcription as backup.")]
             run1 == [run EXCEPT !.asked = Append(@, [q |-> "browser", a |-> answer])]
         IN  IF answer
             THEN [ w |-> [w1 EXCEPT !.transcriptionMode = "browser",
                                     !.transcriptionError = "null",
                                     !.transcriptionStatus = "Loading browser AI models..."],
                    run |-> [run1 EXCEPT !.retry = TRUE,
                               !.stage = transcribeAudioFirst(FALSE),
                               !.attempts = Append(@, transcribeAudioFirst(FALSE)),
                               !.statuses = Append(@, "Loading browser AI models...")],
                    start |-> FALSE ]
             ELSE [ w |-> FinallyTranscribe(run.kind, w1),
                    run |-> [run1 EXCEPT !.pc = "done", !.outcome = "failed",
                               !.statuses = @ \o FinallyStatuses(run.kind)],
                    start |-> FALSE ]
    [] run.kind = "smart" /\ ~ run.retry /\ run.mode = "browser" ->
         OfferWebSpeech(
           [w EXCEPT !.transcriptionError =
              "Browser AI transcription failed. Please try the server option or live speech recognition."],
           run, answer, startOk)
    [] OTHER ->
         OfferWebSpeech(
           [w EXCEPT !.transcriptionError =
              "Browser AI transcription also failed. Please try live speech recognition."],
           run, answer, startOk)

\* the record of a handler invocation is kept until the next click
ReturnedRun ==
  [ kind |-> "returned", gen |-> 0, pc |-> "done", mode |-> "none", retry |-> FALSE,
    stage |-> "none", attempts |-> <<>>, returns |-> <<>>, statuses |-> <<>>,
    asked |-> <<>>, rec |-> 0, capListening |-> FALSE,
    stored |-> NoTranscription, arg |-> NoTranscription, outcome |-> "returned" ]

Returned(rs) ==
  [ i \in 1..Len(rs) |-> IF rs[i].pc = "done" THEN ReturnedRun ELSE rs[i] ]

\* write back the outcome res = [w, run, start] of a segment of run r; the
\* recognizer a segment starts is appended to recs
CommitRun(r, res) ==
  LET run1 == [res.run EXCEPT !.rec = IF res.start THEN Len(recs) + 1 ELSE @]
  IN  /\ waveform' = IF LiveRun(res.run) THEN Rendered(waveform, res.w) ELSE waveform
      /\ runs' = IF r = Len(runs) + 1 THEN Append(Returned(runs), run1)
                 ELSE [runs EXCEPT ![r] = run1]

Commit(r, res) ==
  /\ CommitRun(r, res)
  /\ LET kept == IF r = Len(runs) + 1 THEN Ended(recs) ELSE recs
     IN  recs' = IF res.start THEN Append(kept, NewRecognizer(r)) ELSE kept

\* ------------------------------------------------------- Waveform: clicks
handleSmartTranscribe ==
  /\ waveform.revision = "current"
  /\ ButtonsEnabled
  /\ ~ waveform.isTranscribing
  /\ Len(runs) < MaxRuns
  /\ LET useServer == SmartUseServer(settings)
         mode == IF useServer THEN "server" ELSE "browser"
         first == IF mode = "server" THEN "Connecting to transcription server..."
                  ELSE "Loading AI models in browser..."
         second == IF mode = "server" THEN "Transcribing on server..."
                   ELSE "Processing with browser AI..."
     IN  Commit(Len(runs) + 1,
           [ w |-> [waveform EXCEPT !.isTranscribing = TRUE,
                                    !.isUsingWebSpeech = FALSE,
                                    !.transcriptionError = "null",
                                    !.transcriptionMode = mode,
                                    !.transcriptionStatus = second],
             run |-> NewRun("smart", mode, transcribeAudioFirst(useServer),
                            << "", first, second >>),
             start |-> FALSE ])
  /\ UNCHANGED << settings, activeTab, gen, speechSupported, moderationPipeline >>
  /\ UNCHANGED appVars

\* the Server button of the current revision (part_005:286-321), and the AI
\* Transcribe button of components/Waveform.tsx (106-140), which has no
\* transcriptionMode to set
handleServerTranscribe ==
  /\ waveform.revision \in { "current", "serverOnly" }
  /\ ButtonsEnabled
  /\ ~ waveform.isTranscribing
  /\ Len(runs) < MaxRuns
  /\ Commit(Len(runs) + 1,
       [ w |-> [waveform EXCEPT !.isTranscribing = TRUE,
                                !.isUsingWebSpeech = FALSE,
                                !.transcriptionMode =
                                   IF waveform.revision = "serverOnly" THEN @ ELSE "server",
                                !.transcriptionError = "null",
                                !.transcriptionStatus = "Transcribing on server..."],
         run |-> NewRun("server", "server", transcribeAudioFirst(TRUE),
                        << "Connecting to transcription server...",
                           "Transcribing on server..." >>),
         start |-> FALSE ])
  /\ UNCHANGED << settings, activeTab, gen, speechSupported, moderationPipeline >>
  /\ UNCHANGED appVars

handleBrowserTranscribe ==
  /\ waveform.revision = "current"
  /\ ButtonsEnabled
  /\ ~ waveform.isTranscribing
  /\ Len(runs) < MaxRuns
  /\ Commit(Len(runs) + 1,
       [ w |-> [waveform EXCEPT !.isTranscribing = TRUE,
                                !.isUsingWebSpeech = FALSE,
                                !.transcriptionMode = "browser",
                                !.transcriptionError = "null",
                                !.transcriptionStatus = "Processing with browser AI..."],
         run |-> NewRun("browser", "browser", transcribeAudioFirst(FALSE),
                        << "Loading AI models in browser...",
                           "Processing with browser AI..." >>),
         start |-> FALSE ])
  /\ UNCHANGED << settings, activeTab, gen, speechSupported, moderationPipeline >>
  /\ UNCHANGED appVars

\* the AI Transcribe button of the earlier revision (part_004:161-198):
\* transcribeAudio(blob) with the default useServer = true
handleTranscribe ==
  /\ waveform.revision = "earlier"
  /\ ButtonsEnabled
  /\ ~ waveform.isTranscribing
  /\ Len(runs) < MaxRuns
  /\ Commit(Len(runs) + 1,
       [ w |-> [waveform EXCEPT !.isTranscribing = TRUE,
                                !.isUsingWebSpeech = FALSE],
         run |-> NewRun("legacy", "server", transcribeAudioFirst(TRUE), <<>>),
         start |-> FALSE ])
  /\ UNCHANGED << settings, activeTab, gen, speechSupported, moderationPipeline >>
  /\ UNCHANGED appVars

\* the Live Speech button; Browser Transcribe in the earlier revision, whose
\* handler sets neither transcriptionMode nor transcriptionError and reports
\* a failure by alert (part_004:200-224); in components/Waveform.tsx
\* (142-168) it sets no transcriptionMode
handleWebSpeechTranscribe(startOk) ==
  /\ ButtonsEnabled
  /\ Len(runs) < MaxRuns
  /\ Commit(Len(runs) + 1,
       handleWebSpeechTranscribeStart(waveform,
         NewRun("speech", "browser", "none", <<>>), startOk))
  /\ UNCHANGED << settings, activeTab, gen, speechSupported, moderationPipeline >>
  /\ UNCHANGED appVars

\* ------------------------------------------------- the backends' outcomes
BackendEvent(r, backend, ev, answer, startOk) ==
  /\ runs[r].pc = "call"
  /\ runs[r].stage = backend
  /\ LET c == transcribeAudio(runs[r].stage, ev)
         run1 == [runs[r] EXCEPT !.returns =
                    Append(@, [backend |-> backend, ok |-> ev.ok,
                               result |-> ev.result, error |-> ev.error])]
     IN  Commit(r,
           CASE c.state = "pending" ->
                  [ w |-> waveform,
                    run |-> [run1 EXCEPT !.stage = c.next,
                                         !.attempts = Append(@, c.next)],
                    start |-> FALSE ]
             [] c.state = "resolved" -> TranscribeResolved(waveform, run1, c.value)
             [] OTHER -> TranscribeRejected(waveform, run1, c.error, answer, startOk))
  /\ UNCHANGED << settings, activeTab, gen, speechSupported, moderationPipeline >>
  /\ UNCHANGED appVars

\* transcribeAudioServer resolves: data.transcription?.text || data.text || ""
ServerResponds(r, text) ==
  BackendEvent(r, "server",
    [ok |-> TRUE, result |-> Transcription(text, <<>>), error |-> ""], FALSE, FALSE)

\* transcribeAudioServer rejects: conversion, fetch or a non-2xx status
ServerFails(r, error) ==
  BackendEvent(r, "server",
    [ok |-> FALSE, result |-> NoTranscription,
     error |-> "Server transcription failed: " \o error], FALSE, FALSE)

\* transcribeAudioBrowser resolves with the text and the word timings
BrowserResponds(r, text, words) ==
  BackendEvent(r, "browser",
    [ok |-> TRUE, result |-> Transcription(text, words), error |-> ""], FALSE, FALSE)

\* transcribeAudioBrowser rejects
BrowserFails(r, error, answer, startOk) ==
  BackendEvent(r, "browser",
    [ok |-> FALSE, result |-> NoTranscription, error |-> error], answer, startOk)

\* messages transcribeAudioServer wraps
ServerErrors == { "Failed to fetch", "Transcription API error: 503 Service Unavailable" }

\* ------------------------------------- the SpeechRecognition session events
\* the promise of session i settles and the handler awaiting it resumes
SettleSession(i, rec1, ok, text, error) ==
  /\ recs' = [recs EXCEPT ![i] =
                [rec1 EXCEPT !.promise = IF ok THEN "resolved" ELSE "rejected",
                             !.text = text, !.error = error]]
  /\ CommitRun(recs[i].run, SpeechSettled(waveform, runs[recs[i].run], ok, text, error))

\* recognition.onstart
OnStart(i) ==
  /\ ~ recs[i].ended
  /\ ~ recs[i].everStarted
  /\ recs' = [recs EXCEPT ![i] = [@ EXCEPT !.isListening = TRUE, !.everStarted = TRUE,
                                          !.startedAt = recs[i].elapsed]]
  /\ UNCHANGED << settings, activeTab, gen, waveform, runs, speechSupported, moderationPipeline >>
  /\ UNCHANGED appVars

\* recognition.onresult with one new result
OnResult(i, phrase, isFinal) ==
  /\ recs[i].isListening
  /\ recs[i].results < MaxResults
  /\ recs' = [recs EXCEPT ![i] =
                [@ EXCEPT !.finalTranscript = OnResultTranscript(@, phrase, isFinal),
                          !.results = @ + 1,
                          !.finals = IF isFinal THEN Append(@, phrase) ELSE @,
                          !.interims = IF isFinal THEN @ ELSE @ + 1]]
  /\ UNCHANGED << settings, activeTab, gen, waveform, runs, speechSupported, moderationPipeline >>
  /\ UNCHANGED appVars

\* recognition.onresult with an event that carries several new results
OnResults(i, batch) ==
  /\ recs[i].isListening
  /\ recs[i].results < MaxResults
  /\ recs' = [recs EXCEPT ![i] =
                [@ EXCEPT !.finalTranscript = OnResultLoop(@, batch),
                          !.results = @ + 1,
                          !.finals = @ \o FinalPhrases(batch),
                          !.interims = @ + Len(batch) - Len(FinalPhrases(batch))]]
  /\ UNCHANGED << settings, activeTab, gen, waveform, runs, speechSupported, moderationPipeline >>
  /\ UNCHANGED appVars

\* recognition.onerror: reject; a settled promise ignores it
OnError(i, code) ==
  /\ ~ recs[i].ended
  /\ ~ recs[i].errored
  /\ LET rec1 == [recs[i] EXCEPT !.errored = TRUE]
     IN  IF recs[i].promise = "pending"
         THEN SettleSession(i, rec1, FALSE, <<>>, SpeechErrorMessage(code))
         ELSE /\ recs' = [recs EXCEPT ![i] = rec1]
              /\ UNCHANGED << waveform, runs >>
  /\ UNCHANGED << settings, activeTab, gen, speechSupported, moderationPipeline >>
  /\ UNCHANGED appVars

\* recognition.onend: by itself, after an error or after stop()
OnEnd(i) ==
  /\ ~ recs[i].ended
  /\ LET rec1 == [recs[i] EXCEPT !.isListening = FALSE, !.ended = TRUE]
         out == OnEndOutcome(recs[i].finalTranscript)
     IN  IF recs[i].promise = "pending"
         THEN SettleSession(i, rec1, out.ok, out.text, out.error)
         ELSE /\ recs' = [recs EXCEPT ![i] = rec1]
              /\ UNCHANGED << waveform, runs >>
  /\ UNCHANGED << settings, activeTab, gen, speechSupported, moderationPipeline >>
  /\ UNCHANGED appVars

\* time passes for every pending auto-stop timer; a due timer fires first
Tick ==
  /\ \E i \in 1..Len(recs) : recs[i].timerPending
  /\ \A i \in 1..Len(recs) : recs[i].timerPending => recs[i].elapsed < AutoStopMs
  /\ recs' = [i \in 1..Len(recs) |->
                IF recs[i].timerPending
                THEN [recs[i] EXCEPT !.elapsed = @ + TickMs]
                ELSE recs[i]]
  /\ UNCHANGED << settings, activeTab, gen, waveform, runs, speechSupported, moderationPipeline >>
  /\ UNCHANGED appVars

\* the setTimeout(..., 30000) callback of session i
AutoStop(i) ==
  /\ recs[i].timerPending
  /\ recs[i].elapsed >= AutoStopMs
  /\ recs' = [recs EXCEPT ![i] =
                [@ EXCEPT !.timerPending = FALSE,
                          !.stopCalled = AutoStopCalls(recs[i].isListening),
                          !.stoppedAt = IF AutoStopCalls(recs[i].isListening)
                                        THEN recs[i].elapsed ELSE @]]
  /\ UNCHANGED << settings, activeTab, gen, waveform, runs, speechSupported, moderationPipeline >>
  /\ UNCHANGED appVars

\* ----------------------------------------------------------- lib/moderate.ts
\* the entries of TOXIC_KEYWORDS over the model's alphabet: "hell"
toxicKeywordSet == { <<"h", "e", "l", "l">> }

IsLetter(c) == c \in { "h", "e", "l", "x", "H", "E", "L" }

ToLowerCase(c) ==
  CASE c = "H" -> "h" [] c = "E" -> "e" [] c = "L" -> "l" [] OTHER -> c

\* the cleaning without the lower-casing
RECURSIVE cleanWord_keepsCase(_)
cleanWord_keepsCase(word) ==
  IF word = <<>> THEN <<>>
  ELSE IF IsLetter(Head(word))
       THEN << Head(word) >> \o cleanWord_keepsCase(Tail(word))
       ELSE cleanWord_keepsCase(Tail(word))

\* word.replace(/[^a-zA-Z]/g, '').toLowerCase()
RECURSIVE cleanWord(_)
cleanWord(word) ==
  IF word = <<>> THEN <<>>
  ELSE IF IsLetter(Head(word))
       THEN << ToLowerCase(Head(word)) >> \o cleanWord(Tail(word))
       ELSE cleanWord(Tail(word))

\* the start taken from the index whatever the timings
StartAt_ignoresTimings(wordTimestamps, index) == index

\* wordTimestamps?.[index]?.start ?? index, for the 0-based index
StartAt(wordTimestamps, index) ==
  IF index + 1 <= Len(wordTimestamps) THEN wordTimestamps[index + 1].start ELSE index

\* wordTimestamps?.[index]?.end ?? index + 1
EndAt(wordTimestamps, index) ==
  IF index + 1 <= Len(wordTimestamps) THEN wordTimestamps[index + 1].end ELSE index + 1

RECURSIVE KeywordFlags(_, _, _)
KeywordFlags(words, wordTimestamps, i) ==
  IF i > Len(words) THEN <<>>
  ELSE ( IF cleanWord(words[i]) \in toxicKeywordSet
         THEN << [ word |-> words[i],
                   start |-> StartAt(wordTimestamps, i - 1),
                   end |-> EndAt(wordTimestamps, i - 1),
                   label |-> "warning" ] >>
         ELSE <<>> )
       \o KeywordFlags(words, wordTimestamps, i + 1)

moderateWithKeywords(transcript, wordTimestamps) ==
  KeywordFlags(SplitWs(transcript), wordTimestamps, 1)

\* contextWords.map(w => w.word).join(' ') over the words from..to
RECURSIVE JoinWords(_, _, _)
JoinWords(words, from, to) ==
  IF from > to THEN <<>>
  ELSE IF from = to THEN Trim(words[from])
  ELSE Trim(words[from]) \o <<" ">> \o JoinWords(words, from + 1, to)

Max2(a, b) == IF a > b THEN a ELSE b

Min2(a, b) == IF a < b THEN a ELSE b

\* scores of the NEGATIVE class, in hundredths
ScoreSamples == { 60, 75, 85, 95 }

\* the label of a phrase whose NEGATIVE score passes the 0.7 threshold
mappedLabel(score) ==
  IF score > 90 THEN "toxic" ELSE IF score > 80 THEN "warning" ELSE "info"

\* the classifier loop of moderateTranscript over the words i..; scores[i] is
\* the classifier's NEGATIVE score of the +-2 word phrase around word i
RECURSIVE ClassifierFlags(_, _, _, _)
ClassifierFlags(words, wordTimestamps, scores, i) ==
  IF i > Len(words) THEN <<>>
  ELSE LET phrase == JoinWords(words, Max2(1, i - 2), Min2(Len(words), i + 2))
       IN  ( IF Len(Trim(phrase)) >= 3 /\ scores[i] > 70
             THEN << [ word |-> Trim(words[i]),
                       start |-> StartAt(wordTimestamps, i - 1),
                       end |-> EndAt(wordTimestamps, i - 1),
                       label |-> mappedLabel(scores[i]) ] >>
             ELSE <<>> )
           \o ClassifierFlags(words, wordTimestamps, scores, i + 1)

\* what moderateTranscript(transcript, wordTimestamps) resolves with: the
\* classifier's flags when the pipeline it read or loaded is available, the
\* keyword matcher's when its own load failed
moderateTranscript(transcript, wordTimestamps, pipelineOk, scores) ==
  IF pipelineOk
  THEN ClassifierFlags(SplitWs(transcript), wordTimestamps, scores, 1)
  ELSE moderateWithKeywords(transcript, wordTimestamps)

\* the +-2 word phrase around word i of the transcript's words
PhraseAt(words, i) == JoinWords(words, Max2(1, i - 2), Min2(Len(words), i + 2))

\* whether the classifier loop awaits the classifier at all: it skips every
\* phrase whose trimmed length is below 3
Classifiable(words) ==
  \E i \in 1..Len(words) : Len(Trim(PhraseAt(words, i))) >= 3

\* moderateTranscript up to its first await.  The module variable is read
\* when the call is made: an unloaded pipeline is awaited by this call
\* ("loading"), a loaded one is used at once, and the loop then awaits the
\* classifier ("classifying") unless it skips every phrase and returns
\* ("done")
moderateEntry(loaded, classifiable) ==
  IF ~ loaded THEN "loading"
  ELSE IF classifiable THEN "classifying" ELSE "done"

\* the call's own pipeline() has resolved and the loop is entered
moderateLoaded(classifiable) == IF classifiable THEN "classifying" ELSE "done"

\* the scores with those of the phrases in `failing` replaced by none: the
\* classifier threw on them, which the loop catches and passes over
WithFailures(scores, failing) ==
  [i \in 1..Len(scores) |-> IF i \in failing THEN 0 ELSE scores[i]]

\* the promise of moderateTranscript(transcript, wordTimestamps) with every
\* failure of the pipeline caught
moderateTranscriptSettles_loadRejects(transcript, wordTimestamps, pipelineOk, scores) ==
  IF pipelineOk
  THEN [state |-> "resolved",
        value |-> moderateTranscript(transcript, wordTimestamps, pipelineOk, scores)]
  ELSE [state |-> "rejected", value |-> <<>>]

\* the promise of moderateTranscript: the classifier's flags, the keyword
\* matcher's when the pipeline fails to load; no path rejects
moderateTranscriptSettles(transcript, wordTimestamps, pipelineOk, scores) ==
  [state |-> "resolved",
   value |-> moderateTranscript(transcript, wordTimestamps, pipelineOk, scores)]

\* words.map(w => w.word).join(' ')
RECURSIVE JoinRaw(_, _, _)
JoinRaw(words, from, to) ==
  IF from > to THEN <<>>
  ELSE IF from = to THEN words[from].word
  ELSE words[from].word \o <<" ">> \o JoinRaw(words, from + 1, to)

\* the classifier loop of the word-array form (moderate.ts:84-136): its spans
\* carry the score and the phrase
RECURSIVE ClassifierWordFlags(_, _, _)
ClassifierWordFlags(words, scores, i) ==
  IF i > Len(words) THEN <<>>
  ELSE LET phrase == JoinRaw(words, Max2(1, i - 2), Min2(Len(words), i + 2))
       IN  ( IF Len(Trim(phrase)) >= 3 /\ scores[i] > 70
             THEN << [ start |-> words[i].start, end |-> words[i].end,
                       word |-> words[i].word, label |-> mappedLabel(scores[i]),
                       score |-> scores[i], context |-> phrase ] >>
             ELSE <<>> )
           \o ClassifierWordFlags(words, scores, i + 1)

\* the word-array form's keyword fallback (moderate.ts:143-154): the keyword
\* flags with the fixed score and the joined words as context
RECURSIVE WithKeywordScore(_, _)
WithKeywordScore(flags, transcript) ==
  IF flags = <<>> THEN <<>>
  ELSE << [ start |-> Head(flags).start, end |-> Head(flags).end,
            word |-> Head(flags).word, label |-> Head(flags).label,
            score |-> KeywordScore, context |-> transcript ] >>
       \o WithKeywordScore(Tail(flags), transcript)

moderateWordsWithKeywords(words) ==
  LET transcript == JoinRaw(words, 1, Len(words))
  IN  WithKeywordScore(moderateWithKeywords(transcript, words), transcript)

\* the same for the word-array form, whose phrases join the raw words
ClassifiableWords(words) ==
  \E i \in 1..Len(words) :
    Len(Trim(JoinRaw(words, Max2(1, i - 2), Min2(Len(words), i + 2)))) >= 3

\* moderateTranscript(words): the word-array form
moderateWords(words, pipelineOk, scores) ==
  [state |-> "resolved",
   value |-> IF pipelineOk THEN ClassifierWordFlags(words, scores, 1)
             ELSE moderateWordsWithKeywords(words)]

\* ------------------------------------------------- App.tsx: flag projection
\* String.prototype.toLowerCase
ToLowerSeq(s) == [i \in 1..Len(s) |-> ToLowerCase(s[i])]

\* whether word occurs in text at the 0-based position k
OccursAt(text, word, k) ==
  /\ k + Len(word) <= Len(text)
  /\ \A j \in 1..Len(word) : text[k + j] = word[j]

\* String.prototype.indexOf: the first 0-based position, -1 when there is none
IndexOf(text, word) ==
  IF \E k \in 0..Len(text) : OccursAt(text, word, k)
  THEN CHOOSE k \in 0..Len(text) :
         /\ OccursAt(text, word, k)
         /\ \A m \in 0..(k - 1) : ~ OccursAt(text, word, m)
  ELSE 0 - 1

\* String.prototype.substring: both ends clamped to [0, length], swapped when
\* the first exceeds the second
Substring(text, from, to) ==
  LET a == Max2(0, Min2(Len(text), from))
      b == Max2(0, Min2(Len(text), to))
  IN  SubSeq(text, Min2(a, b) + 1, Max2(a, b))

wordIndex(text, fw) == IndexOf(ToLowerSeq(text), ToLowerSeq(fw.word))

\* the start of the slice without the clamp at 0
contextStart_unclamped(text, fw) == wordIndex(text, fw) - ContextRadius

contextStart(text, fw) == Max2(0, wordIndex(text, fw) - ContextRadius)

contextEnd(text, fw) ==
  Min2(Len(text), wordIndex(text, fw) + Len(fw.word) + ContextRadius)

snippet(text, fw) == Trim(Substring(text, contextStart(text, fw), contextEnd(text, fw)))

extendedSnippet(text, fw) ==
  Trim(Substring(text, Max2(0, wordIndex(text, fw) - ContextRadius),
                 Min2(Len(text), wordIndex(text, fw) + Len(fw.word) + SnippetAfter)))

\* the confidence without the default for a span that carries no score
confidence_noDefault(fw) ==
  IF "score" \in DOMAIN fw THEN fw.score ELSE 0

\* (fw as any).score || 0.8, rounded to hundredths; scores are in hundredths
confidence(fw) ==
  IF "score" \in DOMAIN fw /\ fw.score # 0 THEN fw.score ELSE DefaultScore

\* (fw as any).context || snippet
description(text, fw) ==
  IF "context" \in DOMAIN fw /\ fw.context # <<>> THEN fw.context ELSE snippet(text, fw)

\* the severity with hate treated as any other label
severity_hateUnlisted(label) ==
  IF label = "toxic" THEN "critical"
  ELSE IF label \in { "warning", "profanity" } THEN "warning"
  ELSE "info"

severity(label) ==
  IF label \in { "toxic", "hate" } THEN "critical"
  ELSE IF label \in { "warning", "profanity" } THEN "warning"
  ELSE "info"

category(label) ==
  IF label = "profanity" THEN "Profanity"
  ELSE IF label = "warning" THEN "Quality"
  ELSE IF label = "hate" THEN "Compliance"
  ELSE "Quality"

\* the FlaggedTimestamp of the span fw at the 0-based position idx
FlagRecord(text, fw, idx) ==
  [ id |-> idx,
    timestamp |-> fw.start,
    startTime |-> fw.start,
    endTime |-> fw.end,
    label |-> fw.word,
    flaggedPhrase |-> fw.word,
    description |-> description(text, fw),
    snippet |-> IF extendedSnippet(text, fw) # <<>> THEN extendedSnippet(text, fw)
                ELSE Substring(text, 0, SnippetDefaultLen),
    confidence |-> confidence(fw),
    severity |-> severity(fw.label),
    category |-> category(fw.label),
    history |-> <<>> ]

\* flaggedWords.map((fw, idx) => ...)
ProjectFlags(text, flaggedWords) ==
  [k \in 1..Len(flaggedWords) |-> FlagRecord(text, flaggedWords[k], k - 1)]

\* ------------------------------------- moderate.ts applied to one fixture
Rep(c, n) == [i \in 1..n |-> c]

\* transcripts: "", " ", "he", "hell", "HELL! hell", " hell", "he hell",
\* "hell hell", and "hell" with 31 characters before and after it
TranscriptSamples ==
  { <<>>,
    <<" ">>,
    <<"h", "e">>,
    <<"h", "e", "l", "l">>,
    <<"H", "E", "L", "L", "!", " ", "h", "e", "l", "l">>,
    <<" ", "h", "e", "l", "l">>,
    <<"h", "e", " ", "h", "e", "l", "l">>,
    <<"h", "e", "l", "l", " ", "h", "e", "l", "l">>,
    Rep("x", 31) \o <<" ", "h", "e", "l", "l", " ">> \o Rep("x", 31) }

\* word timings: none, one entry, two entries of which the first starts at 0
TimestampSamples ==
  { <<>>,
    << [word |-> <<"h", "e", "l", "l">>, start |-> 5, end |-> 6] >>,
    << [word |-> <<"H", "E", "L", "L", "!">>, start |-> 0, end |-> 2],
       [word |-> <<"h", "e">>, start |-> 7, end |-> 9] >> }

\* labels a span may carry: those the projection names and one it does not
LabelSamples == { "toxic", "hate", "warning", "profanity", "info", "spam" }

\* words a span may name: "", "hell", "HELL", "x"
WordSamples ==
  { <<>>, <<"h", "e", "l", "l">>, <<"H", "E", "L", "L">>, <<"x">> }

\* the classifier is a function of the phrase: the score vectors that give
\* equal phrases of the transcript equal scores
ScoreVectors(transcript) ==
  LET words == SplitWs(transcript)
  IN  { sc \in [1..Len(words) -> ScoreSamples] :
          \A i, j \in 1..Len(words) :
            PhraseAt(words, i) = PhraseAt(words, j) => sc[i] = sc[j] }

\* a transcript, timings and classifier drawn for the calls that follow
InitModerate ==
  /\ settings = defaultSettings
  /\ activeTab = "dashboard"
  /\ gen = 0
  /\ waveform = InitialWaveform
  /\ runs = <<>>
  /\ recs = <<>>
  /\ speechSupported = TRUE
  /\ moderationPipeline = FALSE
  /\ app = InitialApp
  /\ procs = <<>>
  /\ \E transcript \in TranscriptSamples, wordTimestamps \in TimestampSamples :
       \E scores \in ScoreVectors(transcript) :
         fixture = [transcript |-> transcript, wordTimestamps |-> wordTimestamps,
                    scores |-> scores]
  /\ calls = <<>>
  /\ store = InitialStore

\* a call of moderateTranscript on the fixture, up to its first await
NewCall(form, classifiable) ==
  [ form |-> form, pc |-> moderateEntry(moderationPipeline, classifiable),
    pipeline |-> moderationPipeline, failing |-> {},
    outcome |-> [state |-> "pending", value |-> <<>>], flags |-> <<>> ]

\* the call settles with `outcome`, and App's projection of its value
CallSettled(call, pipelineOk, failing, outcome) ==
  [ call EXCEPT !.pc = "done", !.pipeline = pipelineOk, !.failing = failing,
                !.outcome = outcome,
                !.flags = ProjectFlags(fixture.transcript, outcome.value) ]

\* the outcome of a call in the state `pc` its loop is entered with: a loop
\* that skips every phrase returns in the same turn
CallEntered(call, pc, outcome) ==
  IF pc = "done" THEN CallSettled(call, TRUE, {}, outcome)
  ELSE [call EXCEPT !.pc = pc]

NoScores(n) == [i \in 1..n |-> 0]

\* the outcome of a string-form call whose classifier threw on `failing`
StringOutcome(pipelineOk, failing) ==
  moderateTranscriptSettles(fixture.transcript, fixture.wordTimestamps,
    pipelineOk, WithFailures(fixture.scores, failing))

\* moderateTranscript(transcript, wordTimestamps) is called on the fixture
CallModerate ==
  /\ Len(calls) < MaxCalls
  /\ LET call == NewCall("string", Classifiable(SplitWs(fixture.transcript)))
     IN  calls' = Append(calls, CallEntered(call, call.pc, StringOutcome(TRUE, {})))
  /\ UNCHANGED << store, settings, activeTab, gen, waveform, runs, recs, speechSupported,
                  moderationPipeline, app, procs, fixture >>

\* moderateTranscript(words) is called on the fixture's timed words
CallModerateWords ==
  /\ Len(calls) < MaxCalls
  /\ LET call == NewCall("words", ClassifiableWords(fixture.wordTimestamps))
     IN  calls' = Append(calls,
           CallEntered(call, call.pc,
             moderateWords(fixture.wordTimestamps, TRUE,
                           NoScores(Len(fixture.wordTimestamps)))))
  /\ UNCHANGED << store, settings, activeTab, gen, waveform, runs, recs, speechSupported,
                  moderationPipeline, app, procs, fixture >>

\* the pipeline() of call c resolves: the module variable is assigned and
\* the loop is entered
CallLoadResolves(c) ==
  /\ calls[c].pc = "loading"
  /\ moderationPipeline' = TRUE
  /\ calls' = [calls EXCEPT ![c] =
       IF calls[c].form = "string"
       THEN CallEntered(@, moderateLoaded(Classifiable(SplitWs(fixture.transcript))),
                        StringOutcome(TRUE, {}))
       ELSE CallEntered(@, moderateLoaded(ClassifiableWords(fixture.wordTimestamps)),
                        moderateWords(fixture.wordTimestamps, TRUE,
                                      NoScores(Len(fixture.wordTimestamps))))]
  /\ UNCHANGED << store, settings, activeTab, gen, waveform, runs, recs, speechSupported,
                  app, procs, fixture >>

\* the pipeline() of call c rejects: this call falls back to the keyword
\* matcher, whatever another call has loaded meanwhile
CallLoadRejects(c) ==
  /\ calls[c].pc = "loading"
  /\ calls' = [calls EXCEPT ![c] =
       CallSettled(@, FALSE, {},
         IF calls[c].form = "string" THEN StringOutcome(FALSE, {})
         ELSE moderateWords(fixture.wordTimestamps, FALSE, <<>>))]
  /\ UNCHANGED << store, settings, activeTab, gen, waveform, runs, recs, speechSupported,
                  moderationPipeline, app, procs, fixture >>

\* the classifier has answered every phrase of the string-form call c,
\* throwing on those in `failing`
CallClassified(c, failing) ==
  /\ calls[c].pc = "classifying"
  /\ calls[c].form = "string"
  /\ calls' = [calls EXCEPT ![c] =
       CallSettled(@, TRUE, failing, StringOutcome(TRUE, failing))]
  /\ UNCHANGED << store, settings, activeTab, gen, waveform, runs, recs, speechSupported,
                  moderationPipeline, app, procs, fixture >>

\* the classifier has answered every phrase of the word-array call c
CallClassifiedWords(c, scores) ==
  /\ calls[c].pc = "classifying"
  /\ calls[c].form = "words"
  /\ calls' = [calls EXCEPT ![c] =
       CallSettled(@, TRUE, {}, moderateWords(fixture.wordTimestamps, TRUE, scores))]
  /\ UNCHANGED << store, settings, activeTab, gen, waveform, runs, recs, speechSupported,
                  moderationPipeline, app, procs, fixture >>

\* the projection of processFile on a span that names `word`
CallProject(word, label) ==
  /\ Len(calls) < MaxCalls
  /\ LET fw == [word |-> word, start |-> 0, end |-> 1, label |-> label]
     IN  calls' = Append(calls,
           [ form |-> "project", pc |-> "done",
             pipeline |-> moderationPipeline, failing |-> {},
             outcome |-> [state |-> "resolved", value |-> << fw >>],
             wordIndex |-> wordIndex(fixture.transcript, fw),
             contextStart |-> contextStart(fixture.transcript, fw),
             contextEnd |-> contextEnd(fixture.transcript, fw),
             flags |-> ProjectFlags(fixture.transcript, << fw >>) ])
  /\ UNCHANGED << store, settings, activeTab, gen, waveform, runs, recs, speechSupported,
                  moderationPipeline, app, procs, fixture >>

\* --------------------------------------------------- App.tsx: processFile
\* the files of the store, by id
Files == { 1, 2 }

NoSpeechInFile ==
  "No speech detected in audio file. Please ensure the audio contains clear speech."

\* messages of the errors processAudioFile rejects with
WaveformErrors == { "Failed to read file", "Unable to decode audio data" }

\* the catch and finally of processFile (App.tsx:138-149)
ProcessFileCatch(a, f, message) ==
  [a EXCEPT !.processingError = message, !.errorOf = f,
            !.flaggedTimestamps = <<>>, !.flagsOf = f,
            !.isProcessing = FALSE, !.processingStep = ""]

\* a failure that is reported while the invocation goes on
ProcFailed_continues(p, stage, message) ==
  /\ app' = ProcessFileCatch(app, procs[p].file, message)
  /\ procs' = [procs EXCEPT ![p] =
       [@ EXCEPT !.outcome = "failed",
                 !.results = Append(@, [stage |-> stage, ok |-> FALSE])]]

\* a stage of invocation p ended in failure: nothing more of it runs
ProcFailed(p, stage, message) ==
  /\ app' = ProcessFileCatch(app, procs[p].file, message)
  /\ procs' = [procs EXCEPT ![p] =
       [@ EXCEPT !.pc = "done", !.outcome = "failed",
                 !.results = Append(@, [stage |-> stage, ok |-> FALSE])]]

\* processAudioFile resolves: setWaveformData, then transcribeAudio(blob)
\* is called with its default useServer = true
WaveformResolves(p) ==
  /\ procs[p].pc = "waveform"
  /\ app' = [app EXCEPT !.waveformData = procs[p].file,
                        !.processingStep = "Transcribing audio with AI..."]
  /\ procs' = [procs EXCEPT ![p] =
       [@ EXCEPT !.pc = "transcribe", !.stage = transcribeAudioFirst(TRUE),
                 !.stages = Append(@, "transcription"),
                 !.results = Append(@, [stage |-> "waveform", ok |-> TRUE])]]
  /\ UNCHANGED << store, settings, activeTab, gen, waveform, runs, recs, speechSupported,
                  moderationPipeline, fixture, calls >>

WaveformRejects(p, message) ==
  /\ procs[p].pc = "waveform"
  /\ ProcFailed(p, "waveform", message)
  /\ UNCHANGED << store, settings, activeTab, gen, waveform, runs, recs, speechSupported,
                  moderationPipeline, fixture, calls >>

\* moderateTranscript resolved with flaggedWords: the flags are projected and
\* stored (App.tsx:85-129), then the finally block runs; a1 and proc1 are
\* App's fields and the invocation as the step has left them so far
ProcModerated(p, a1, proc1, flaggedWords) ==
  /\ app' = [a1 EXCEPT
       !.flaggedTimestamps = ProjectFlags(proc1.transcription.text, flaggedWords),
       !.flagsOf = proc1.file,
       !.isProcessing = FALSE, !.processingStep = ""]
  /\ procs' = [procs EXCEPT ![p] =
       [proc1 EXCEPT !.pc = "done", !.outcome = "succeeded",
                     !.flaggedWords = flaggedWords,
                     !.stages = Append(@, "projection"),
                     !.results = Append(@, [stage |-> "moderation", ok |-> TRUE])]]

\* the call of moderateTranscript is in the state proc1.pc: a loop that
\* skips every phrase returns no flags in the same turn
ProcEntered(p, a1, proc1) ==
  IF proc1.pc = "done"
  THEN ProcModerated(p, a1, proc1, <<>>)
  ELSE /\ app' = a1
       /\ procs' = [procs EXCEPT ![p] = proc1]

\* a backend of the transcribeAudio call of invocation p answers, and
\* processFile resumes when the call settles (App.tsx:71-85)
ProcBackendEvent(p, backend, ev) ==
  /\ procs[p].pc = "transcribe"
  /\ procs[p].stage = backend
  /\ LET c == transcribeAudio(procs[p].stage, ev)
     IN  CASE c.state = "pending" ->
                /\ procs' = [procs EXCEPT ![p] = [@ EXCEPT !.stage = c.next]]
                /\ app' = app
           [] c.state = "rejected" -> ProcFailed(p, "transcription", c.error)
           [] c.value.text = <<>> \/ Len(Trim(c.value.text)) < MinTranscriptLen ->
                ProcFailed(p, "transcription", NoSpeechInFile)
           [] OTHER ->
                LET a1 == [app EXCEPT !.processingStep =
                             "Analyzing content for inappropriate material..."]
                    proc1 == [procs[p] EXCEPT
                               !.pc = moderateEntry(moderationPipeline,
                                        Classifiable(SplitWs(c.value.text))),
                               !.stage = "none",
                               !.transcription = c.value,
                               !.stages = Append(@, "moderation"),
                               !.results = Append(@, [stage |-> "transcription", ok |-> TRUE])]
                IN  ProcEntered(p, a1, proc1)
  /\ UNCHANGED << store, settings, activeTab, gen, waveform, runs, recs, speechSupported,
                  moderationPipeline, fixture, calls >>

ProcServerResponds(p, text) ==
  ProcBackendEvent(p, "server",
    [ok |-> TRUE, result |-> Transcription(text, <<>>), error |-> ""])

ProcServerFails(p, error) ==
  ProcBackendEvent(p, "server",
    [ok |-> FALSE, result |-> NoTranscription,
     error |-> "Server transcription failed: " \o error])

ProcBrowserResponds(p, text, words) ==
  ProcBackendEvent(p, "browser",
    [ok |-> TRUE, result |-> Transcription(text, words), error |-> ""])

ProcBrowserFails(p, error) ==
  ProcBackendEvent(p, "browser",
    [ok |-> FALSE, result |-> NoTranscription, error |-> error])

\* the pipeline() of the moderateTranscript call of invocation p resolves
ProcLoadResolves(p) ==
  /\ procs[p].pc = "loading"
  /\ moderationPipeline' = TRUE
  /\ ProcEntered(p, app,
       [procs[p] EXCEPT !.pc =
          moderateLoaded(Classifiable(SplitWs(procs[p].transcription.text)))])
  /\ UNCHANGED << store, settings, activeTab, gen, waveform, runs, recs, speechSupported,
                  fixture, calls >>

\* it rejects: the call resolves with the keyword matcher's flags
ProcLoadRejects(p) ==
  /\ procs[p].pc = "loading"
  /\ LET t == procs[p].transcription
     IN  ProcModerated(p, app, procs[p], moderateTranscript(t.text, t.words, FALSE, <<>>))
  /\ UNCHANGED << store, settings, activeTab, gen, waveform, runs, recs, speechSupported,
                  moderationPipeline, fixture, calls >>

\* the classifier has answered every phrase of the call of invocation p
ProcClassified(p, scores) ==
  /\ procs[p].pc = "classifying"
  /\ LET t == procs[p].transcription
     IN  ProcModerated(p, app, procs[p], moderateTranscript(t.text, t.words, TRUE, scores))
  /\ UNCHANGED << store, settings, activeTab, gen, waveform, runs, recs, speechSupported,
                  moderationPipeline, fixture, calls >>

\* -------------------------------------------------- store/useAudioStore.ts
\* flaggedWords values passed to updateFileFlags: none, one flag
FlagSamples == { <<>>, << "flag" >> }

\* App's effect on [selectedFile] (App.tsx:48-153) after the store changed to
\* st: it runs when selectedFile is another object than before, clears the
\* display for null and starts processFile for a file
SelectionEffect(st, changed) ==
  IF ~ changed
  THEN UNCHANGED << app, procs >>
  ELSE IF st.selectedFile = <<>>
  THEN /\ app' = EffectCleared(app)
       /\ procs' = procs
  ELSE /\ Len(procs) < MaxProcs
       /\ app' = ProcessFileStart(app)
       /\ procs' = Append(procs, NewProc(st.selectedFile[1].id))

\* set(st) of the store with the renders it causes: App's effect, and
\* AudioFiles mounting or unmounting Waveform
StoreSet(st, changed) ==
  /\ store' = st
  /\ SelectionEffect(st, changed)
  /\ Remount(activeTab, st)
  /\ UNCHANGED << settings, activeTab, runs, recs, speechSupported, moderationPipeline,
                  fixture, calls >>

\* whether selecting `file`, an element of audioFiles or none, makes
\* selectedFile another object than it is
Reselects(file) ==
  IF file = <<>> THEN store.selectedFile # <<>>
  ELSE ~ ( /\ store.selectedFile # <<>>
           /\ store.shared
           /\ store.selectedFile[1].id = file[1].id )

\* ids are `${Date.now()}-${random}`: a new file's id is not in the list
addAudioFile(file) ==
  /\ Find(store.audioFiles, file.id) = <<>>
  /\ StoreSet(Added(store, file), TRUE)

removeAudioFile(id) ==
  LET isSelected == store.selectedFile # <<>> /\ store.selectedFile[1].id = id
  IN  StoreSet(
        [store EXCEPT
           !.audioFiles = SelectSeq(@, LAMBDA f : f.id # id),
           !.selectedFile = IF isSelected THEN <<>> ELSE @,
           !.selectedFileId = IF isSelected THEN 0 ELSE @,
           !.shared = IF isSelected THEN FALSE ELSE @,
           !.last = LastOp(store, "removeAudioFile", id)],
        isSelected)

\* selectFile(file) with an element of audioFiles or null: file?.id || null
selectFile(file) ==
  StoreSet(
    [store EXCEPT
       !.selectedFile = file,
       !.selectedFileId = IF file = <<>> THEN 0 ELSE file[1].id,
       !.shared = file # <<>>,
       !.byId = FALSE,
       !.last = LastOp(store, "selectFile", IF file = <<>> THEN 0 ELSE file[1].id)],
    Reselects(file))

\* setSelectedFileId(id): the id is stored as given, the file is looked up
setSelectedFileId(id) ==
  LET file == IF id # 0 THEN Find(store.audioFiles, id) ELSE <<>>
  IN  StoreSet(
        [store EXCEPT
           !.selectedFileId = id,
           !.selectedFile = file,
           !.shared = file # <<>>,
           !.byId = TRUE,
           !.last = LastOp(store, "setSelectedFileId", id)],
        Reselects(file))

\* updateFileFlags(id, flaggedWords): the file of the list and the selected
\* file are each replaced by a copy
updateFileFlags(id, flaggedWords) ==
  LET isSelected == store.selectedFile # <<>> /\ store.selectedFile[1].id = id
  IN  StoreSet(
        [store EXCEPT
           !.audioFiles = [k \in 1..Len(@) |->
                             IF @[k].id = id
                             THEN [@[k] EXCEPT !.flaggedWords = << flaggedWords >>]
                             ELSE @[k]],
           !.selectedFile = IF isSelected
                            THEN << [@[1] EXCEPT !.flaggedWords = << flaggedWords >>] >>
                            ELSE @,
           !.shared = IF isSelected THEN FALSE ELSE @,
           !.last = LastOp(store, "updateFileFlags", id)],
        isSelected)

clearFiles ==
  StoreSet(
    [store EXCEPT
       !.audioFiles = <<>>,
       !.selectedFile = <<>>,
       !.selectedFileId = 0,
       !.shared = FALSE,
       !.byId = FALSE,
       !.last = LastOp(store, "clearFiles", 0)],
    store.selectedFile # <<>>)

\* handleModerate after moderateTranscript resolved with `flagged`
ModerateResolved(w, run, flagged) ==
  [ w |-> [w EXCEPT !.flaggedWords = flagged, !.fresh = TRUE, !.isModerating = FALSE],
    run |-> [run EXCEPT !.pc = "done", !.outcome = "succeeded"],
    start |-> FALSE ]

\* the call of moderateTranscript of `run` is in the state run.pc
ModerateEntered(w, run) ==
  IF run.pc = "done" THEN ModerateResolved(w, run, <<>>)
  ELSE [ w |-> w, run |-> run, start |-> FALSE ]

\* the Moderate button: rendered once there is a transcription,
\* disabled={isModerating}
handleModerate ==
  /\ mounted
  /\ waveform.transcription.set
  /\ ~ waveform.isModerating
  /\ waveform.transcription.text # <<>>
  /\ Len(runs) < MaxRuns
  /\ Commit(Len(runs) + 1,
       ModerateEntered(
         [waveform EXCEPT !.isModerating = TRUE,
                          !.isUsingKeywordModeration = FALSE],
         [NewRun("moderate", "none", "none", <<>>) EXCEPT
            !.pc = moderateEntry(moderationPipeline,
                     Classifiable(SplitWs(waveform.transcription.text))),
            !.arg = waveform.transcription]))
  /\ UNCHANGED << settings, activeTab, gen, speechSupported, moderationPipeline >>
  /\ UNCHANGED appVars

\* the pipeline() of the moderateTranscript call of run r resolves
ModerationLoadResolves(r) ==
  /\ runs[r].pc = "loading"
  /\ moderationPipeline' = TRUE
  /\ Commit(r, ModerateEntered(waveform,
       [runs[r] EXCEPT !.pc = moderateLoaded(Classifiable(SplitWs(runs[r].arg.text)))]))
  /\ UNCHANGED << settings, activeTab, gen, speechSupported >>
  /\ UNCHANGED appVars

\* it rejects: the call resolves with the keyword matcher's flags and
\* handleModerate resumes
ModerationLoadRejects(r) ==
  /\ runs[r].pc = "loading"
  /\ Commit(r, ModerateResolved(waveform, runs[r],
       moderateTranscript(runs[r].arg.text, runs[r].arg.words, FALSE, <<>>)))
  /\ UNCHANGED << settings, activeTab, gen, speechSupported, moderationPipeline >>
  /\ UNCHANGED appVars

\* the classifier has answered every phrase and handleModerate resumes
ModerationClassified(r, scores) ==
  /\ runs[r].pc = "classifying"
  /\ Commit(r, ModerateResolved(waveform, runs[r],
       moderateTranscript(runs[r].arg.text, runs[r].arg.words, TRUE, scores)))
  /\ UNCHANGED << settings, activeTab, gen, speechSupported, moderationPipeline >>
  /\ UNCHANGED appVars

\* ------------------------------------------------------------ specification
\* the clicks on the mounted Waveform
Clicks ==
  \/ handleSmartTranscribe
  \/ handleServerTranscribe
  \/ handleBrowserTranscribe
  \/ handleTranscribe
  \/ \E startOk \in BOOLEAN : handleWebSpeechTranscribe(startOk)

\* the outcomes of the remote and the local-model backend
Backends ==
  \/ \E r \in 1..Len(runs), text \in TextSamples : ServerResponds(r, text)
  \/ \E r \in 1..Len(runs), error \in ServerErrors : ServerFails(r, error)
  \/ \E r \in 1..Len(runs), res \in BrowserResultSamples :
       BrowserResponds(r, res.text, res.words)
  \/ \E r \in 1..Len(runs), error \in BrowserErrors, answer, startOk \in BOOLEAN :
       BrowserFails(r, error, answer, startOk)

\* the events of the recognizers
Recognizers ==
  \/ \E i \in 1..Len(recs) : OnStart(i)
  \/ \E i \in 1..Len(recs), phrase \in PhraseSamples, isFinal \in BOOLEAN :
       OnResult(i, phrase, isFinal)
  \/ \E i \in 1..Len(recs), code \in SpeechErrorCodes : OnError(i, code)
  \/ \E i \in 1..Len(recs) : OnEnd(i)

Moderation ==
  \/ handleModerate
  \/ \E r \in 1..Len(runs) : ModerationLoadResolves(r)
  \/ \E r \in 1..Len(runs) : ModerationLoadRejects(r)
  \/ \E r \in 1..Len(runs) :
       \E scores \in [1..Len(SplitWs(runs[r].arg.text)) -> ScoreSamples] :
         ModerationClassified(r, scores)

\* one mounted Waveform of any revision: transcription by every handler
\* the revision has, then moderation.
\* The auto-stop timer only calls stop(), after which the recognizer ends as
\* it may at any time, so the clock is left to SpecSession.
Next ==
  \/ Clicks
  \/ Backends
  \/ Recognizers
  \/ Moderation

Spec == InitRevisions /\ [][Next]_vars

\* the live-microphone session under the clock
NextSession ==
  \/ \E startOk \in BOOLEAN : handleWebSpeechTranscribe(startOk)
  \/ Recognizers
  \/ Tick
  \/ \E i \in 1..Len(recs) : AutoStop(i)

SpecSession == Init /\ [][NextSession]_vars

\* the live-microphone session with events that carry several results
NextDictation ==
  \/ \E startOk \in BOOLEAN : handleWebSpeechTranscribe(startOk)
  \/ \E i \in 1..Len(recs) : OnStart(i)
  \/ \E i \in 1..Len(recs), batch \in BatchSamples : OnResults(i, batch)
  \/ \E i \in 1..Len(recs), code \in SpeechErrorCodes : OnError(i, code)
  \/ \E i \in 1..Len(recs) : OnEnd(i)

\* the Audio Files tab after a file has been uploaded, in a browser that has
\* the Web Speech API
InitDictation ==
  /\ settings = defaultSettings
  /\ activeTab = "files"
  /\ gen = 1
  /\ waveform = InitialWaveform
  /\ runs = <<>>
  /\ recs = <<>>
  /\ speechSupported = TRUE
  /\ moderationPipeline = FALSE
  /\ FileUploaded

SpecDictation == InitDictation /\ [][NextDictation]_vars

\* the four transcription handlers with their backends, the recognizer and
\* the clock, without recognition results
NextRelease ==
  \/ handleSmartTranscribe
  \/ handleServerTranscribe
  \/ handleBrowserTranscribe
  \/ \E startOk \in BOOLEAN : handleWebSpeechTranscribe(startOk)
  \/ Backends
  \/ \E i \in 1..Len(recs) : OnStart(i)
  \/ \E i \in 1..Len(recs), code \in SpeechErrorCodes : OnError(i, code)
  \/ \E i \in 1..Len(recs) : OnEnd(i)
  \/ Tick
  \/ \E i \in 1..Len(recs) : AutoStop(i)

\* some backend answers the call of run r
BackendAnswers(r) ==
  /\ r <= Len(runs)
  /\ \/ \E text \in TextSamples : ServerResponds(r, text)
     \/ \E error \in ServerErrors : ServerFails(r, error)
     \/ \E res \in BrowserResultSamples : BrowserResponds(r, res.text, res.words)
     \/ \E error \in BrowserErrors, answer, startOk \in BOOLEAN :
          BrowserFails(r, error, answer, startOk)

\* the end event that follows stop() or an error event
EndFollows(i) ==
  /\ i <= Len(recs)
  /\ recs[i].stopCalled \/ recs[i].errored
  /\ OnEnd(i)

\* every backend call is answered, a started recognizer reports its start,
\* timers fire when due, and a recognizer that was stopped or that reported an
\* error ends; a recognizer that is listening may go on listening
FairRelease ==
  /\ WF_vars(Tick)
  /\ \A r \in 1..MaxRuns : WF_vars(BackendAnswers(r))
  /\ \A i \in 1..MaxRuns : WF_vars(i <= Len(recs) /\ OnStart(i))
  /\ \A i \in 1..MaxRuns : WF_vars(i <= Len(recs) /\ AutoStop(i))
  /\ \A i \in 1..MaxRuns : WF_vars(EndFollows(i))

SpecRelease == InitDictation /\ [][NextRelease]_vars /\ FairRelease

\* Waveform after a remote transcription of the selected audio has completed
\* (handleServerTranscribe: mode server, no error, no status, no flags)
InitTranscribed ==
  /\ settings = defaultSettings
  /\ activeTab = "files"
  /\ gen = 1
  /\ \E text \in TextSamples :
       waveform = [InitialWaveform EXCEPT !.transcription = Transcription(text, <<>>)]
  /\ runs = <<>>
  /\ recs = <<>>
  /\ speechSupported = TRUE
  /\ moderationPipeline = FALSE
  /\ FileUploaded

\* a moderation of the transcription on display, with the transcription
\* buttons still enabled while it runs
NextReanalyse ==
  \/ handleServerTranscribe
  \/ handleBrowserTranscribe
  \/ Backends
  \/ Moderation

SpecReanalyse == InitTranscribed /\ [][NextReanalyse]_vars

\* the player and its overlay: the local model, alone or behind Smart
\* Transcribe, then moderation, while the player is imported, created and
\* made ready, and while an upload completes and becomes the selected file
NextDraw ==
  \/ handleSmartTranscribe
  \/ handleBrowserTranscribe
  \/ Backends
  \/ Moderation
  \/ Player
  \/ \E id \in Files : addAudioFile(UploadedFile(id))

SpecDraw == InitDictation /\ [][NextDraw]_vars

\* Waveform mounted and unmounted by the tabs, with a remote transcription
\* or a live-microphone session in flight
NextTabs ==
  \/ \E t \in Tabs : setActiveTab(t)
  \/ \E startOk \in BOOLEAN : handleWebSpeechTranscribe(startOk)
  \/ \E i \in 1..Len(recs) : OnStart(i)
  \/ \E i \in 1..Len(recs), phrase \in PhraseSamples, isFinal \in BOOLEAN :
       OnResult(i, phrase, isFinal)
  \/ \E i \in 1..Len(recs), code \in SpeechErrorCodes : OnError(i, code)
  \/ \E i \in 1..Len(recs) : OnEnd(i)

SpecTabs == InitTabs /\ [][NextTabs]_vars

\* the application with its tabs, the settings toggles and the Smart
\* Transcribe button: a transcription triggered again while one is running
NextRetrigger ==
  \/ \E t \in Tabs : setActiveTab(t)
  \/ handleServerTranscriptionToggle
  \/ handleBrowserTranscriptionToggle
  \/ handleSmartTranscribe
  \/ Backends
  \/ \E i \in 1..Len(recs) : OnEnd(i)

SpecRetrigger == InitTabs /\ [][NextRetrigger]_vars

\* App's analysis of the selected file: uploads, the clicks on the file list
\* and the completions of the stages of every processFile invocation
NextApp ==
  \/ \E id \in Files : addAudioFile(UploadedFile(id))
  \/ \E k \in 1..Len(store.audioFiles) : removeAudioFile(store.audioFiles[k].id)
  \/ \E k \in 1..Len(store.audioFiles) : setSelectedFileId(store.audioFiles[k].id)
  \/ \E p \in 1..Len(procs) : WaveformResolves(p)
  \/ \E p \in 1..Len(procs), message \in WaveformErrors : WaveformRejects(p, message)
  \/ \E p \in 1..Len(procs), text \in TextSamples : ProcServerResponds(p, text)
  \/ \E p \in 1..Len(procs), error \in ServerErrors : ProcServerFails(p, error)
  \/ \E p \in 1..Len(procs), res \in BrowserResultSamples :
       ProcBrowserResponds(p, res.text, res.words)
  \/ \E p \in 1..Len(procs), error \in BrowserErrors : ProcBrowserFails(p, error)
  \/ \E p \in 1..Len(procs) : ProcLoadResolves(p)
  \/ \E p \in 1..Len(procs) : ProcLoadRejects(p)
  \/ \E p \in 1..Len(procs) :
       \E scores \in [1..Len(SplitWs(procs[p].transcription.text)) -> ScoreSamples] :
         ProcClassified(p, scores)

SpecApp == InitApp /\ [][NextApp]_vars

\* partial settings passed to updateSettings: either flag, or both
SettingsSamples ==
  { [preferServerTranscription |-> b] : b \in BOOLEAN } \cup
  { [preferBrowserTranscription |-> b] : b \in BOOLEAN } \cup
  [ preferServerTranscription : BOOLEAN, preferBrowserTranscription : BOOLEAN ]

\* the operations of the store on files 1 and 2
NextStore ==
  \/ \E id \in Files : addAudioFile(UploadedFile(id))
  \/ \E id \in Files : removeAudioFile(id)
  \/ selectFile(<<>>)
  \/ \E k \in 1..Len(store.audioFiles) : selectFile(<< store.audioFiles[k] >>)
  \/ \E id \in Files \cup { 0 } : setSelectedFileId(id)
  \/ \E id \in Files, flaggedWords \in FlagSamples : updateFileFlags(id, flaggedWords)
  \/ clearFiles
  \/ \E newSettings \in SettingsSamples : updateSettings(newSettings)
  \/ resetSettings

SpecStore == InitApp /\ [][NextStore]_vars

\* the moderation engine and the flag projection as functions of their inputs
NextModerate ==
  \/ CallModerate
  \/ CallModerateWords
  \/ \E c \in 1..Len(calls) : CallLoadResolves(c)
  \/ \E c \in 1..Len(calls) : CallLoadRejects(c)
  \/ \E c \in 1..Len(calls), failing \in SUBSET (1..Len(fixture.scores)) :
       CallClassified(c, failing)
  \/ \E c \in 1..Len(calls) :
       \E scores \in [1..Len(fixture.wordTimestamps) -> ScoreSamples] :
         CallClassifiedWords(c, scores)
  \/ \E word \in WordSamples, label \in LabelSamples :
       CallProject(word, label)

SpecModerate == InitModerate /\ [][NextModerate]_vars

\* ------------------------------------------------------------------ claims
Last(q) == q[Len(q)]

Has(q, x) == \E k \in 1..Len(q) : q[k] = x

TranscribeKinds == { "smart", "server", "browser", "legacy" }

\* the backend a handler names: the remote server or the local model
NamedBackend(kind) == IF kind = "server" THEN "server" ELSE "browser"

\* a smart run in server mode whose remote call failed and whose local-model
\* call then succeeded, finished
RemoteFailedLocalSucceeded(run) ==
  /\ run.kind = "smart"
  /\ run.mode = "server"
  /\ run.pc = "done"
  /\ Len(run.returns) = 2
  /\ run.returns[1].backend = "server" /\ ~ run.returns[1].ok
  /\ run.returns[2].backend = "browser" /\ run.returns[2].ok

\* C1 (as claimed): a run of handleServerTranscribe or handleBrowserTranscribe
\* attempts only the backend it names and offers no other one.
C1_NamedBackendOnly ==
  \A r \in 1..Len(runs) :
    runs[r].kind \in { "server", "browser" } =>
      /\ \A k \in 1..Len(runs[r].attempts) :
           runs[r].attempts[k] = NamedBackend(runs[r].kind)
      /\ runs[r].asked = <<>>

\* C2: a smart run in server mode whose remote call fails and whose local
\* call succeeds ends in success, with the local model's result (text and word
\* timings) stored as the transcription and no confirm asked.
C2_SilentLocalFallback ==
  \A r \in 1..Len(runs) :
    RemoteFailedLocalSucceeded(runs[r]) =>
      /\ runs[r].outcome = "succeeded"
      /\ runs[r].asked = <<>>
      /\ runs[r].stored = runs[r].returns[2].result
      /\ waveform.transcription = runs[r].returns[2].result
      /\ ~ waveform.isTranscribing

C2_Witness ==
  \E r \in 1..Len(runs) :
    /\ RemoteFailedLocalSucceeded(runs[r])
    /\ runs[r].returns[2].result.words # <<>>
    /\ waveform.transcription.words # <<>>

\* C3: a transcription handler enters live-microphone recognition only after
\* its backend failed and the user answered yes to the confirm that offers
\* it; a declined offer starts no session.
C3_MicrophoneOnlyConfirmed ==
  \A r \in 1..Len(runs) :
    runs[r].kind \in TranscribeKinds =>
      /\ ( Has(runs[r].attempts, "speech") \/ runs[r].rec # 0 ) =>
           /\ runs[r].asked # <<>>
           /\ Last(runs[r].asked) = [q |-> "speech", a |-> TRUE]
           /\ runs[r].returns # <<>>
           /\ ~ Last(runs[r].returns).ok
      /\ ( runs[r].asked # <<>> /\ Last(runs[r].asked) = [q |-> "speech", a |-> FALSE] ) =>
           /\ ~ Has(runs[r].attempts, "speech")
           /\ runs[r].rec = 0
           /\ runs[r].pc = "done"

C3_Witness ==
  \E r \in 1..Len(runs) :
    /\ runs[r].kind \in TranscribeKinds
    /\ runs[r].rec # 0
    /\ ~ recs[runs[r].rec].ended
    /\ Last(runs[r].asked) = [q |-> "speech", a |-> TRUE]

\* C4: the first backend of a smart run is the local model exactly when
\* preferBrowserTranscription is set and preferServerTranscription is not,
\* and the remote server otherwise.
C4_FirstBackendByFlags ==
  \A r \in 1..Len(runs) :
    runs[r].kind = "smart" =>
      runs[r].attempts[1] =
        ( IF settings.preferBrowserTranscription /\ ~ settings.preferServerTranscription
          THEN "browser" ELSE "server" )

C4_Witness ==
  \E r \in 1..Len(runs) :
    /\ runs[r].kind = "smart"
    /\ settings.preferBrowserTranscription
    /\ settings.preferServerTranscription
    /\ runs[r].attempts[1] = "server"

\* the measure the claim names: the number of non-whitespace characters of
\* s; the program itself measures text.trim().length (ProcBackendEvent)
RECURSIVE NonSpaceCount(_)
NonSpaceCount(s) ==
  IF s = <<>> THEN 0
  ELSE (IF IsSpace(Head(s)) THEN 0 ELSE 1) + NonSpaceCount(Tail(s))

\* C5 (as claimed): moderateTranscript is never called with a transcript of
\* fewer than 3 non-whitespace characters.
C5_NoShortTranscriptModerated ==
  \A r \in 1..Len(runs) :
    runs[r].kind = "moderate" => NonSpaceCount(runs[r].arg.text) >= MinTranscriptLen

\* C6 (as claimed): a backend result whose trimmed text is shorter than 3 is
\* followed by an attempt of the next backend.
C6_ShortResultFallsBack ==
  \A r \in 1..Len(runs) :
    \A k \in 1..Len(runs[r].returns) :
      ( runs[r].returns[k].ok
        /\ Len(Trim(runs[r].returns[k].result.text)) < MinTranscriptLen ) =>
        Len(runs[r].attempts) > k

\* the operator-facing reading of a transcriptionStatus value
StatusKind(status) ==
  CASE status = "Connecting to transcription server..." -> "connecting"
    [] status = "Transcribing on server..." -> "transcribing-remote"
    [] status \in { "Loading AI models in browser...", "Loading browser AI models...",
                    "Processing with browser AI..." } -> "transcribing-local"
    [] OTHER -> "idle"

\* the status values a run shows, in order, followed by its outcome
RECURSIVE ShownStatuses(_)
ShownStatuses(statuses) ==
  IF statuses = <<>> THEN <<>>
  ELSE ( IF StatusKind(Head(statuses)) = "idle" THEN <<>>
         ELSE << StatusKind(Head(statuses)) >> )
       \o ShownStatuses(Tail(statuses))

\* C7 (as claimed): the statuses of a smart run whose remote call fails and
\* whose local call succeeds are connecting, transcribing-remote,
\* failed-remote, transcribing-local, succeeded.
C7_StatusSequence ==
  \A r \in 1..Len(runs) :
    RemoteFailedLocalSucceeded(runs[r]) =>
      ShownStatuses(runs[r].statuses) \o << runs[r].outcome >> =
        << "connecting", "transcribing-remote", "failed-remote",
           "transcribing-local", "succeeded" >>

\* C8 (as claimed): a session that is listening once its 30-second timer has
\* fired has been stopped by it, at 30 seconds; and a stopped session that
\* then ends without an error event completes with the accumulated final
\* text, the empty string when there is none.
C8_StopResolvesWithText ==
  \A i \in 1..Len(recs) :
    /\ ( recs[i].isListening /\ ~ recs[i].timerPending ) =>
         recs[i].stopCalled /\ recs[i].stoppedAt = AutoStopMs
    /\ ( recs[i].stopCalled /\ recs[i].ended /\ ~ recs[i].errored ) =>
         /\ recs[i].promise = "resolved"
         /\ recs[i].text = Trim(recs[i].finalTranscript)

\* C9 (as claimed): at most one live-microphone session is active.
C9_OneActiveSession == Cardinality(ActiveRecognizers) <= 1

\* C10 (as claimed): at most one transcribeAudio call of the selected audio is
\* unresolved.
C10_OneBackendCallInFlight ==
  Cardinality({ r \in 1..Len(runs) : runs[r].pc = "call" }) <= 1

AllProcsDone == \A p \in 1..Len(procs) : procs[p].pc = "done"

\* C11 (as claimed): once every analysis has finished, the flags and the
\* error on display were written by the analysis of the selected file, or by
\* none when no file is selected.
C11_AbandonedResultDiscarded ==
  AllProcsDone =>
    /\ app.flagsOf = selectedFile
    /\ app.errorOf \in { 0, selectedFile }

StageOrder == << "waveform", "transcription", "moderation", "projection" >>

\* C12: the stages an invocation of processFile has started are a prefix of
\* waveform, transcription, moderation, projection; each started after the
\* one before it had ended well, moderation only with a transcript of trimmed
\* length 3 or more; a failed stage is the last stage of its invocation.
C12_StagesInOrder ==
  \A p \in 1..Len(procs) :
    /\ Len(procs[p].stages) <= Len(StageOrder)
    /\ \A k \in 1..Len(procs[p].stages) : procs[p].stages[k] = StageOrder[k]
    /\ \A k \in 2..Len(procs[p].stages) :
         /\ k - 1 <= Len(procs[p].results)
         /\ procs[p].results[k - 1] = [stage |-> StageOrder[k - 1], ok |-> TRUE]
    /\ Has(procs[p].stages, "moderation") =>
         /\ procs[p].transcription.set
         /\ Len(Trim(procs[p].transcription.text)) >= MinTranscriptLen
    /\ \A k \in 1..Len(procs[p].results) :
         ~ procs[p].results[k].ok =>
           /\ k = Len(procs[p].results)
           /\ k = Len(procs[p].stages)
           /\ procs[p].pc = "done"

C12_Witness ==
  \E p, q \in 1..Len(procs) :
    /\ procs[p].outcome = "succeeded"
    /\ procs[p].stages = StageOrder
    /\ procs[q].outcome = "failed"
    /\ procs[q].stages = << "waveform", "transcription" >>

\* the string-form calls that have settled
StringCalls ==
  { c \in 1..Len(calls) : calls[c].form = "string" /\ calls[c].pc = "done" }

\* the string-form calls answered by the keyword matcher
KeywordCalls == { c \in StringCalls : ~ calls[c].pipeline }

Tokens == SplitWs(fixture.transcript)

InLexicon(token) == cleanWord(token) \in toxicKeywordSet

\* the tokens of the transcript that are in the lexicon, in token order
LexiconTokens == SelectSeq(Tokens, InLexicon)

SpanWords(spans) == [k \in 1..Len(spans) |-> spans[k].word]

\* C13 (as claimed): the spans of moderateTranscript name exactly the
\* transcript's tokens whose cleaned form is in the lexicon, in token order.
C13_LexiconSubsequence ==
  \A c \in StringCalls : SpanWords(calls[c].outcome.value) = LexiconTokens

\* the tier of a lexicon token under a choice of the high and medium subsets
TierLabel(token, high, medium) ==
  IF token \in high THEN "toxic"
  ELSE IF token \in medium THEN "warning"
  ELSE "profanity"

\* C14 (as claimed): whatever the high-severity and medium-severity subsets
\* of the lexicon are, a span of the keyword matcher is labelled toxic for a
\* token of the high subset, else warning for one of the medium subset, else
\* profanity.
C14_LabelByTier ==
  \A high, medium \in SUBSET toxicKeywordSet :
    \A c \in KeywordCalls :
      \A k \in 1..Len(calls[c].outcome.value) :
        calls[c].outcome.value[k].label =
          TierLabel(cleanWord(calls[c].outcome.value[k].word), high, medium)

\* the spans of call c for the token at the 0-based index i, when the
\* fixture has no timings and a span's start is its token's index
SpansAt(c, i) ==
  SelectSeq(calls[c].outcome.value, LAMBDA fw : fw.start = i)

\* the letters of a token, lower-cased: tokens with the same letters differ
\* only in letter case or in non-alphabetic characters
Folded(token) == ToLowerSeq(SelectSeq(token, IsLetter))

\* C15: under the keyword matcher two tokens that differ only in letter case
\* or in non-alphabetic characters are both flagged, with the same label, or
\* both not flagged, and a span's word is the raw token.
C15_CaseAndPunctuationInsensitive ==
  \A c \in KeywordCalls :
    fixture.wordTimestamps = <<>> =>
      /\ \A i, j \in 1..Len(Tokens) :
           Folded(Tokens[i]) = Folded(Tokens[j]) =>
             /\ Len(SpansAt(c, i - 1)) = Len(SpansAt(c, j - 1))
             /\ Len(SpansAt(c, i - 1)) <= 1
             /\ Len(SpansAt(c, i - 1)) = 1 =>
                  SpansAt(c, i - 1)[1].label = SpansAt(c, j - 1)[1].label
      /\ \A k \in 1..Len(calls[c].outcome.value) :
           calls[c].outcome.value[k].word = Tokens[calls[c].outcome.value[k].start + 1]

C15_Witness ==
  \E c \in KeywordCalls :
    /\ fixture.wordTimestamps = <<>>
    /\ \E i, j \in 1..Len(Tokens) :
         /\ Tokens[i] # Tokens[j]
         /\ Folded(Tokens[i]) = Folded(Tokens[j])
         /\ Len(SpansAt(c, i - 1)) = 1
         /\ Len(SpansAt(c, j - 1)) = 1

\* whether the spans can be assigned, in order, to token indices so that
\* each span has its token as word and takes start and end from the timing
\* entry at that index, or the index and its successor when there is none
TimedByIndex(spans) ==
  \E at \in [1..Len(spans) -> 1..Len(Tokens)] :
    /\ \A k \in 1..(Len(spans) - 1) : at[k] < at[k + 1]
    /\ \A k \in 1..Len(spans) :
         /\ spans[k].word = Tokens[at[k]]
         /\ IF at[k] <= Len(fixture.wordTimestamps)
            THEN /\ spans[k].start = fixture.wordTimestamps[at[k]].start
                 /\ spans[k].end = fixture.wordTimestamps[at[k]].end
            ELSE /\ spans[k].start = at[k] - 1
                 /\ spans[k].end = at[k]

\* C16: every call of moderateTranscript resolves, whatever the timings, and
\* the span of the token at index i takes start and end from wordTimestamps[i]
\* when there is such an entry and is (i, i + 1) otherwise.
C16_TimestampFallback ==
  \A c \in StringCalls :
    /\ calls[c].outcome.state = "resolved"
    /\ TimedByIndex(calls[c].outcome.value)

C16_Witness ==
  \E c \in StringCalls :
    /\ Len(calls[c].outcome.value) = 2
    /\ Len(fixture.wordTimestamps) = 1
    /\ calls[c].outcome.value[1].start = fixture.wordTimestamps[1].start
    /\ calls[c].outcome.value[2].start = 1

\* the calls of either form answered by the keyword matcher
KeywordAnswered ==
  { c \in 1..Len(calls) :
      calls[c].form \in { "string", "words" } /\ calls[c].pc = "done" /\ ~ calls[c].pipeline }

\* C17 (as claimed): every span of the keyword matcher carries the score 0.9
\* and the confidence of its flag record is 0.9.
C17_KeywordScoreNinety ==
  \A c \in KeywordAnswered :
    \A k \in 1..Len(calls[c].outcome.value) :
      /\ "score" \in DOMAIN calls[c].outcome.value[k]
      /\ calls[c].outcome.value[k].score = 90
      /\ calls[c].flags[k].confidence = 90

\* C17 (amended): a span of the keyword matcher carries no score in the
\* string form and the score 0.8 in the word-array form, whatever token
\* matched, and the confidence of its flag record is 0.8, within [0, 1].
C17_KeywordScoreEighty ==
  \A c \in KeywordAnswered :
    \A k \in 1..Len(calls[c].outcome.value) :
      /\ IF calls[c].form = "string"
         THEN ~ ("score" \in DOMAIN calls[c].outcome.value[k])
         ELSE calls[c].outcome.value[k].score = 80
      /\ calls[c].flags[k].confidence = 80
      /\ calls[c].flags[k].confidence >= 0
      /\ calls[c].flags[k].confidence <= 100

C17_Witness ==
  \E c, d \in KeywordAnswered :
    /\ calls[c].form = "string"
    /\ calls[c].flags # <<>>
    /\ calls[d].form = "words"
    /\ calls[d].flags # <<>>

\* C18 (as claimed): two calls of moderateTranscript with the same transcript
\* and timings return the same spans.
C18_SameResultOnEveryCall ==
  \A c, d \in StringCalls : calls[c].outcome = calls[d].outcome

\* C19: every call of moderateTranscript resolves, also when the pipeline
\* fails to load or throws on a phrase, and resolves with no span for an empty
\* or all-whitespace transcript.
C19_NeverRejects ==
  \A c \in 1..Len(calls) :
    ( calls[c].form \in { "string", "words" } /\ calls[c].pc = "done" ) =>
      /\ calls[c].outcome.state = "resolved"
      /\ ( calls[c].form = "string" /\ Trim(fixture.transcript) = <<>> ) =>
           calls[c].outcome.value = <<>>

C19_Witness ==
  \E c, d \in StringCalls :
    /\ ~ calls[c].pipeline
    /\ calls[c].outcome.value # <<>>
    /\ calls[d].pipeline
    /\ calls[d].failing # {}
    /\ calls[d].outcome.state = "resolved"

\* C20: the bounds of the context slice of a flagged word satisfy
\* 0 <= contextStart <= contextEnd <= transcript length wherever the word
\* first occurs, also when it does not occur, and flag records of one
\* transcript with the same word have the same context.
C20_ContextWithinTranscript ==
  /\ \A c \in 1..Len(calls) :
       calls[c].form = "project" =>
         /\ 0 <= calls[c].contextStart
         /\ calls[c].contextStart <= calls[c].contextEnd
         /\ calls[c].contextEnd <= Len(fixture.transcript)
  /\ \A c, d \in 1..Len(calls) :
       \A k \in 1..Len(calls[c].flags), m \in 1..Len(calls[d].flags) :
         ( /\ calls[c].form \in { "string", "project" }
           /\ calls[d].form \in { "string", "project" }
           /\ calls[c].flags[k].flaggedPhrase = calls[d].flags[m].flaggedPhrase ) =>
           calls[c].flags[k].description = calls[d].flags[m].description

C20_Witness ==
  \E c, d \in 1..Len(calls) :
    /\ calls[c].form = "project"
    /\ calls[c].wordIndex = 0 - 1
    /\ calls[d].form = "string"
    /\ Len(calls[d].flags) = 2
    /\ calls[d].flags[1].flaggedPhrase = calls[d].flags[2].flaggedPhrase
    /\ calls[d].flags[1].description # <<>>

\* the table of the projection: label to severity
SeverityTable(label) ==
  CASE label = "toxic" -> "critical"
    [] label = "hate" -> "critical"
    [] label = "warning" -> "warning"
    [] label = "profanity" -> "warning"
    [] OTHER -> "info"

\* the table of the projection: label to category
CategoryTable(label) ==
  CASE label = "profanity" -> "Profanity"
    [] label = "warning" -> "Quality"
    [] label = "hate" -> "Compliance"
    [] OTHER -> "Quality"

\* C21: the flag records of a call are as many as its spans and in their
\* order; each has the severity and the category the fixed table gives for its
\* span's label, never the severity review, the span's start and end, an
\* empty history, and an id no other record of the call has.
C21_ProjectionTable ==
  \A c \in 1..Len(calls) :
    /\ Len(calls[c].flags) = Len(calls[c].outcome.value)
    /\ \A k \in 1..Len(calls[c].flags) :
         LET fw == calls[c].outcome.value[k]
             flag == calls[c].flags[k]
         IN  /\ flag.severity = SeverityTable(fw.label)
             /\ flag.category = CategoryTable(fw.label)
             /\ flag.severity # "review"
             /\ flag.flaggedPhrase = fw.word
             /\ flag.timestamp = fw.start
             /\ flag.startTime = fw.start
             /\ flag.endTime = fw.end
             /\ flag.history = <<>>
    /\ \A k, m \in 1..Len(calls[c].flags) :
         k # m => calls[c].flags[k].id # calls[c].flags[m].id

C21_Witness ==
  \E c, d \in 1..Len(calls) :
    /\ calls[c].form = "project"
    /\ calls[c].outcome.value[1].label = "hate"
    /\ calls[c].flags[1].severity = "critical"
    /\ calls[c].flags[1].category = "Compliance"
    /\ calls[d].form = "string"
    /\ Len(calls[d].flags) = 2
    /\ calls[d].flags[1].startTime # calls[d].flags[2].startTime

\* the phrases joined by single spaces
RECURSIVE JoinSpaced(_)
JoinSpaced(phrases) ==
  IF phrases = <<>> THEN <<>>
  ELSE IF Len(phrases) = 1 THEN Head(phrases)
  ELSE Head(phrases) \o <<" ">> \o JoinSpaced(Tail(phrases))

\* C22: the text a live-microphone session resolves with is its final results
\* in arrival order joined by single spaces and trimmed, whatever interim
\* results arrived, and the transcription the handler stores for it has that
\* text and no words.
C22_FinalResultsOnly ==
  \A i \in 1..Len(recs) :
    recs[i].promise = "resolved" =>
      /\ recs[i].text = Trim(JoinSpaced(recs[i].finals))
      /\ runs[recs[i].run].stored = Transcription(recs[i].text, <<>>)
      /\ waveform.transcription = Transcription(recs[i].text, <<>>)

C22_Witness ==
  \E i \in 1..Len(recs) :
    /\ recs[i].promise = "resolved"
    /\ recs[i].interims > 0
    /\ recs[i].finals = << <<"l">>, <<"h", "e">> >>
    /\ waveform.transcription.text = <<"l", " ", "h", "e">>
    /\ waveform.transcription.words = <<>>

\* the messages of the exceptions the backends and the decoder raise
\* themselves: the fetch failure, the HTTP status and the decode failure
RawErrorMessages ==
  { "Failed to fetch", "Transcription API error: 503", "Unable to decode audio data" }

\* C23 (as claimed): the error text stored for display, transcriptionError in
\* Waveform and processingError in App, is never the raw message of the
\* exception a backend raised.
C23_NoRawErrorShown ==
  /\ app.processingError \notin RawErrorMessages
  /\ waveform.transcriptionError \notin RawErrorMessages

\* the words of the transcript: its maximal runs of non-whitespace
Words == SelectSeq(Tokens, LAMBDA token : token # <<>>)

\* whether the spans can be assigned, in order, to positions among the words
\* of the transcript so that each span has its word and the timing entry of
\* that position, or the position and its successor when there is none
TimedByWordPosition(spans) ==
  \E at \in [1..Len(spans) -> 1..Len(Words)] :
    /\ \A k \in 1..(Len(spans) - 1) : at[k] < at[k + 1]
    /\ \A k \in 1..Len(spans) :
         /\ spans[k].word = Words[at[k]]
         /\ IF at[k] <= Len(fixture.wordTimestamps)
            THEN /\ spans[k].start = fixture.wordTimestamps[at[k]].start
                 /\ spans[k].end = fixture.wordTimestamps[at[k]].end
            ELSE /\ spans[k].start = at[k] - 1
                 /\ spans[k].end = at[k]

\* C24 (as claimed): the index a token's timing is looked up with is the
\* 0-based position of that word among the words of the transcript, also when
\* the transcript begins or ends with whitespace: the span of the k-th word
\* has the k-th timing entry.
C24_WordPositionIndexesTiming ==
  \A c \in StringCalls : TimedByWordPosition(calls[c].outcome.value)

\* C25 (as claimed): the step in which a stage of an analysis fails leaves no
\* flags, an error message, the waveform as it was, isProcessing false and no
\* processing step, and the waveform then on display is none or that of the
\* file whose analysis failed; the step in which an analysis succeeds leaves
\* isProcessing false.
C25_CleanErrorState ==
  [][ \A p \in 1..Len(procs) :
        /\ ( procs[p].outcome = "pending" /\ procs'[p].outcome = "failed" ) =>
             /\ app'.flaggedTimestamps = <<>>
             /\ app'.processingError # "null"
             /\ app'.waveformData = app.waveformData
             /\ ~ app'.isProcessing
             /\ app'.processingStep = ""
             /\ app'.waveformData \in { 0, procs[p].file }
        /\ ( procs[p].outcome = "pending" /\ procs'[p].outcome = "succeeded" ) =>
             ~ app'.isProcessing ]_vars

\* a finished moderation of the transcription on display whose flags are
\* shown
ShownModeration(r) ==
  /\ runs[r].kind = "moderate"
  /\ runs[r].pc = "done"
  /\ LiveRun(runs[r])
  /\ waveform.transcription = runs[r].arg
  /\ waveform.flaggedWords # <<>>

\* the player has reported that the audio is ready and its canvas is in
\* the container
PlayerReady == waveform.wavesurfer = "ready" /\ waveform.canvas

\* C26 (as claimed): no region is on the waveform for flags of a
\* transcription without word timings, whose starts are token indices; and
\* when the player is ready, the transcription on display has word timings
\* and its flags start within the audio, regions and word markers are on the
\* waveform.
C26_RegionsOnlyForRealTimings ==
  \A r \in 1..Len(runs) :
    ShownModeration(r) =>
      /\ runs[r].arg.words = <<>> => waveform.regions = <<>>
      /\ ( /\ runs[r].arg.words # <<>>
           /\ PlayerReady
           /\ \A k \in 1..Len(waveform.flaggedWords) :
                waveform.flaggedWords[k].start <= waveform.duration ) =>
           /\ waveform.regions # <<>>
           /\ waveform.markers # <<>>

\* C27 (as claimed): the flags shown in Waveform were computed from the
\* transcription on display: a completed transcription leaves no flags of an
\* earlier one, and a moderation that ends after a transcription completed
\* does not bring back the flags of the superseded transcript.
C27_FlagsOfCurrentTranscription ==
  \A r \in 1..Len(runs) :
    ( /\ runs[r].kind = "moderate"
      /\ runs[r].pc = "done"
      /\ LiveRun(runs[r])
      /\ waveform.flaggedWords # <<>> ) =>
      waveform.transcription = runs[r].arg

\* C28 (as claimed): selectedFileId is null exactly when selectedFile is;
\* otherwise it is the id of selectedFile; a file selected by id is an
\* element of audioFiles; and removing a file that was not the selected one
\* leaves both selection fields as they were.
C28_SelectionFieldsAgree ==
  /\ store.selectedFileId = 0 <=> store.selectedFile = <<>>
  /\ store.selectedFile # <<>> => store.selectedFileId = store.selectedFile[1].id
  /\ ( store.byId /\ store.selectedFile # <<>> ) =>
       Has(store.audioFiles, store.selectedFile[1])
  /\ ( /\ store.last.op = "removeAudioFile"
       /\ ~ ( store.last.selectedFile # <<>> /\ store.last.selectedFile[1].id = store.last.id ) ) =>
       /\ store.selectedFile = store.last.selectedFile
       /\ store.selectedFileId = store.last.selectedFileId

\* how many times x occurs in q
Count(q, x) == Len(SelectSeq(q, LAMBDA y : y = x))

\* C29 (as claimed): a smart run attempts the remote server, the local model
\* and the live microphone at most once each, and a backend its user is
\* asked to confirm has not been attempted in this run before: a declined
\* offer names a backend never attempted, an accepted one a backend attempted
\* once.
C29_EachBackendOnce ==
  \A r \in 1..Len(runs) :
    runs[r].kind = "smart" =>
      /\ \A backend \in { "server", "browser", "speech" } :
           Count(runs[r].attempts, backend) <= 1
      /\ \A k \in 1..Len(runs[r].asked) :
           Count(runs[r].attempts, runs[r].asked[k].q) <=
             ( IF runs[r].asked[k].a THEN 1 ELSE 0 )

\* C30 (as claimed): every transcription handler ends with its busy flag
\* false and the status line empty, and the promise of a live-microphone
\* session whose recognizer has started settles.
C30_BusyStateReleased ==
  /\ waveform.isTranscribing ~> ~ waveform.isTranscribing
  /\ waveform.isListeningForSpeech ~> ~ waveform.isListeningForSpeech
  /\ waveform.transcriptionStatus # "" ~> waveform.transcriptionStatus = ""
  /\ \A i \in 1..MaxRuns :
       ( i <= Len(recs) /\ recs[i].everStarted ) ~>
         ( i <= Len(recs) /\ recs[i].promise # "pending" )

TypeOK ==
  /\ activeTab \in Tabs
  /\ gen \in 0..MaxMounts
  /\ Len(runs) <= MaxRuns

====
